---- MODULE Spec2Model ----
(***************************************************************************)
(* TimeCapsule: the ledger-resident capsule store                          *)
(* (contracts/contracts/TimeCapsule.sol) together with the encryption      *)
(* engine's access-control table that the store writes to (FHE.allow) and  *)
(* that the engine consults when a user asks it to reveal plaintext        *)
(* (instance.userDecrypt in frontend/hooks/useTimeCapsule.tsx).            *)
(*                                                                         *)
(* One action is one ledger transaction (or one engine call).  A reverted  *)
(* transaction leaves the ledger as it was; the outcome of every call is   *)
(* kept in lastCall so that properties can speak about errors.             *)
(***************************************************************************)
EXTENDS Integers, Sequences, FiniteSets

\* ---------------------------------------------------------------- bounds
NumUsers == 3       \* user identities 1..NumUsers
NumHandles == 2     \* ciphertext handles the engine has issued
MaxChunks == 1      \* longest chunk list passed to createCapsule
MaxCapsules == 2    \* successful creates explored
MaxTime == 2        \* last block timestamp explored

\* ------------------------------------------------------------- identities
Zero == 0                               \* address(0)
This == 0 - 1                           \* address(this), the store itself
Users == 1..NumUsers
Handles == 1..NumHandles
CapsuleIds == 0..MaxCapsules            \* one id more than can be created
Times == 0..MaxTime
NoId == 0 - 1

\* revert reasons of the store (the require strings of TimeCapsule.sol)
Ok == "ok"
InvalidSchedule == "Unlock time must be in the future"
EmptyContent == "Empty content"
InvalidProof == "Invalid input proof"
NotFound == "Capsule does not exist"
AlreadyUnlocked == "Capsule already unlocked"
NotYet == "Capsule cannot be unlocked yet"
Unauthorized == "Only owner or heir can unlock"
AclDenied == "User is not allowed on handle"

VARIABLES
  now,             \* block.timestamp
  capsuleCounter,  \* uint256 public capsuleCounter
  capsules,        \* mapping(uint256 => Capsule)
  userCapsules,    \* mapping(address => uint256[])
  acl,             \* engine ACL: handle -> addresses allowed to read it
  events,          \* the log of emitted notifications
  lastCall,        \* the call made by the last step: operation, capsule id
                   \* (argument or returned), chunk count passed, outcome
  \* --- the client hook useTimeCapsule
  ethersSigner,    \* the active identity (address of the wallet's signer)
  chainId,         \* the active network
  uiCapsules,      \* useState capsules: the capsule records the hook caches
  userCapsuleIds,  \* useState userCapsuleIds
  message,         \* useState message
  isCreatingRef,   \* busy flags (the ref and the state are set together)
  isUnlockingRef,
  isDecryptingRef,
  createRun,       \* the createCapsule workflow in flight: its await and locals
  unlockRun,       \* the unlockCapsule workflow in flight
  decryptRun,      \* the decryptCapsuleContent workflow in flight
  indexLoads,      \* loadUserCapsules calls in flight, by captured signer
  detailLoads,     \* loadCapsuleDetails calls in flight, by capsule id
  loadOrSignCalls, \* FhevmDecryptionSignature.loadOrSign calls in flight
  refreshRun,      \* the refreshCapsules call in flight: its await and locals
  \* --- the chunk codec of the hook, on its own
  bytes,           \* encoder.encode(content): the payload bytes
  uint32Chunks,    \* the packed words (what is encrypted, stored, revealed)
  trimmed,         \* the bytes reassembled from the words, padding trimmed
  codecPc          \* "input", "rejected", "encoded" or "decoded"

store == <<capsuleCounter, capsules, userCapsules, acl, events>>
ledgerVars == <<now, capsuleCounter, capsules, userCapsules, acl, events, lastCall>>
codecVars == <<bytes, uint32Chunks, trimmed, codecPc>>
hookVars ==
  <<ethersSigner, chainId, uiCapsules, userCapsuleIds, message,
    isCreatingRef, isUnlockingRef, isDecryptingRef,
    createRun, unlockRun, decryptRun, indexLoads, detailLoads,
    loadOrSignCalls, refreshRun>>
clientVars == <<hookVars, codecVars>>
vars == <<ledgerVars, clientVars>>

Range(s) == {s[i] : i \in 1..Len(s)}

\* struct Capsule; the value of an unwritten mapping slot
NoCapsule ==
  [encryptedContentChunks |-> <<>>, unlockTime |-> 0, owner |-> Zero,
   heir |-> Zero, exists |-> FALSE, unlocked |-> FALSE]

\* chunk lists a caller can pass: every list of 0..MaxChunks handles
ChunkLists == UNION {[1..n -> Handles] : n \in 0..MaxChunks}

\* The engine binds every ciphertext handle to the requester it was
\* encrypted for (createEncryptedInput(store, requester)).
HandleUser(h) == ((h - 1) % NumUsers) + 1

\* FHE.fromExternal(handle, inputProof) with the proof msg.sender holds: the
\* engine accepts the handle when it was encrypted for msg.sender, and the
\* same handle and proof can be presented in more than one transaction.
fromExternal(h, sender) == HandleUser(h) = sender

\* the ledger state a transaction works on and either commits or reverts
Ledger ==
  [capsuleCounter |-> capsuleCounter, capsules |-> capsules,
   userCapsules |-> userCapsules, acl |-> acl, events |-> events]

CapsuleCreated(id, owner, heir, unlockTime) ==
  [name |-> "CapsuleCreated", capsuleId |-> id, who |-> owner, heir |-> heir,
   unlockTime |-> unlockTime]

CapsuleUnlocked(id, unlocker) ==
  [name |-> "CapsuleUnlocked", capsuleId |-> id, who |-> unlocker, heir |-> Zero,
   unlockTime |-> 0]

\* ------------------------------------------------------------ createCapsule
\* mutant: the schedule check accepts unlockTime = block.timestamp
createCapsuleRevert_AllowsNow(sender, chunks, unlockTime) ==
  IF ~(unlockTime >= now) THEN InvalidSchedule
  ELSE IF ~(Len(chunks) > 0) THEN EmptyContent
  ELSE IF \E i \in 1..Len(chunks) : ~fromExternal(chunks[i], sender)
       THEN InvalidProof
  ELSE Ok

\* mutant: the empty-content check is missing
createCapsuleRevert_NoEmptyCheck(sender, chunks, unlockTime) ==
  IF ~(unlockTime > now) THEN InvalidSchedule
  ELSE IF \E i \in 1..Len(chunks) : ~fromExternal(chunks[i], sender)
       THEN InvalidProof
  ELSE Ok

\* the require statements of createCapsule, in source order; Ok when none fails
createCapsuleRevert(sender, chunks, unlockTime) ==
  IF ~(unlockTime > now) THEN InvalidSchedule
  ELSE IF ~(Len(chunks) > 0) THEN EmptyContent
  ELSE IF \E i \in 1..Len(chunks) : ~fromExternal(chunks[i], sender)
       THEN InvalidProof
  ELSE Ok

\* mutant: the id is taken without advancing the counter (capsuleId = capsuleCounter)
createCapsuleWrites_ReusesId(sender, chunks, unlockTime, heir) ==
  LET capsuleId == capsuleCounter
      grantHeir == heir # Zero /\ heir # sender
      granted   == {This, sender} \cup (IF grantHeir THEN {heir} ELSE {})
      pushed    == [userCapsules EXCEPT ![sender] = Append(@, capsuleId)]
  IN  [capsuleId |-> capsuleId,
       capsuleCounter |-> capsuleCounter,
       capsules |-> [capsules EXCEPT ![capsuleId] =
          [encryptedContentChunks |-> chunks,
           unlockTime |-> unlockTime,
           owner |-> sender,
           heir |-> IF heir # Zero THEN heir ELSE sender,
           exists |-> TRUE,
           unlocked |-> FALSE]],
       acl |-> [h \in Handles |->
          IF h \in Range(chunks) THEN acl[h] \cup granted ELSE acl[h]],
       userCapsules |->
          IF grantHeir THEN [pushed EXCEPT ![heir] = Append(@, capsuleId)]
          ELSE pushed,
       events |-> Append(events, CapsuleCreated(capsuleId, sender, heir, unlockTime))]

\* mutant: pre-increment, capsuleId = ++capsuleCounter
createCapsuleWrites_PreIncrement(sender, chunks, unlockTime, heir) ==
  LET capsuleId == capsuleCounter + 1
      grantHeir == heir # Zero /\ heir # sender
      granted   == {This, sender} \cup (IF grantHeir THEN {heir} ELSE {})
      pushed    == [userCapsules EXCEPT ![sender] = Append(@, capsuleId)]
  IN  [capsuleId |-> capsuleId,
       capsuleCounter |-> capsuleCounter + 1,
       capsules |-> [capsules EXCEPT ![capsuleId] =
          [encryptedContentChunks |-> chunks,
           unlockTime |-> unlockTime,
           owner |-> sender,
           heir |-> IF heir # Zero THEN heir ELSE sender,
           exists |-> TRUE,
           unlocked |-> FALSE]],
       acl |-> [h \in Handles |->
          IF h \in Range(chunks) THEN acl[h] \cup granted ELSE acl[h]],
       userCapsules |->
          IF grantHeir THEN [pushed EXCEPT ![heir] = Append(@, capsuleId)]
          ELSE pushed,
       events |-> Append(events, CapsuleCreated(capsuleId, sender, heir, unlockTime))]

\* mutant: the heir is indexed and granted even when it is the caller
createCapsuleWrites_NoSelfCheck(sender, chunks, unlockTime, heir) ==
  LET capsuleId == capsuleCounter
      grantHeir == heir # Zero
      granted   == {This, sender} \cup (IF grantHeir THEN {heir} ELSE {})
      pushed    == [userCapsules EXCEPT ![sender] = Append(@, capsuleId)]
  IN  [capsuleId |-> capsuleId,
       capsuleCounter |-> capsuleCounter + 1,
       capsules |-> [capsules EXCEPT ![capsuleId] =
          [encryptedContentChunks |-> chunks,
           unlockTime |-> unlockTime,
           owner |-> sender,
           heir |-> IF heir # Zero THEN heir ELSE sender,
           exists |-> TRUE,
           unlocked |-> FALSE]],
       acl |-> [h \in Handles |->
          IF h \in Range(chunks) THEN acl[h] \cup granted ELSE acl[h]],
       userCapsules |->
          IF grantHeir THEN [pushed EXCEPT ![heir] = Append(@, capsuleId)]
          ELSE pushed,
       events |-> Append(events, CapsuleCreated(capsuleId, sender, heir, unlockTime))]

\* mutant: only the caller's index receives the new id
createCapsuleWrites_HeirNotIndexed(sender, chunks, unlockTime, heir) ==
  LET capsuleId == capsuleCounter
      grantHeir == heir # Zero /\ heir # sender
      granted   == {This, sender} \cup (IF grantHeir THEN {heir} ELSE {})
      pushed    == [userCapsules EXCEPT ![sender] = Append(@, capsuleId)]
  IN  [capsuleId |-> capsuleId,
       capsuleCounter |-> capsuleCounter + 1,
       capsules |-> [capsules EXCEPT ![capsuleId] =
          [encryptedContentChunks |-> chunks,
           unlockTime |-> unlockTime,
           owner |-> sender,
           heir |-> IF heir # Zero THEN heir ELSE sender,
           exists |-> TRUE,
           unlocked |-> FALSE]],
       acl |-> [h \in Handles |->
          IF h \in Range(chunks) THEN acl[h] \cup granted ELSE acl[h]],
       userCapsules |-> pushed,
       events |-> Append(events, CapsuleCreated(capsuleId, sender, heir, unlockTime))]

\* the writes of createCapsule once every require has passed
createCapsuleWrites(sender, chunks, unlockTime, heir) ==
  LET capsuleId == capsuleCounter
      grantHeir == heir # Zero /\ heir # sender
      granted   == {This, sender} \cup (IF grantHeir THEN {heir} ELSE {})
      pushed    == [userCapsules EXCEPT ![sender] = Append(@, capsuleId)]
  IN  [capsuleId |-> capsuleId,
       capsuleCounter |-> capsuleCounter + 1,
       capsules |-> [capsules EXCEPT ![capsuleId] =
          [encryptedContentChunks |-> chunks,
           unlockTime |-> unlockTime,
           owner |-> sender,
           heir |-> IF heir # Zero THEN heir ELSE sender,
           exists |-> TRUE,
           unlocked |-> FALSE]],
       acl |-> [h \in Handles |->
          IF h \in Range(chunks) THEN acl[h] \cup granted ELSE acl[h]],
       userCapsules |->
          IF grantHeir THEN [pushed EXCEPT ![heir] = Append(@, capsuleId)]
          ELSE pushed,
       events |-> Append(events, CapsuleCreated(capsuleId, sender, heir, unlockTime))]

\* mutant: the counter is advanced before the chunks are verified and a
\* failed verification returns without undoing it
createCapsule_NoRollback(sender, chunks, unlockTime, heir) ==
  LET err == createCapsuleRevert(sender, chunks, unlockTime)
      w == createCapsuleWrites(sender, chunks, unlockTime, heir)
  IN  IF err = InvalidProof
      THEN [result |-> err, ret |-> NoId,
            st |-> [Ledger EXCEPT !.capsuleCounter = capsuleCounter + 1]]
      ELSE IF err # Ok
      THEN [result |-> err, ret |-> NoId, st |-> Ledger]
      ELSE [result |-> Ok, ret |-> w.capsuleId,
            st |-> [capsuleCounter |-> w.capsuleCounter, capsules |-> w.capsules,
                    userCapsules |-> w.userCapsules, acl |-> w.acl,
                    events |-> w.events]]

\* one createCapsule transaction: result, returned id, ledger after it
createCapsule(sender, chunks, unlockTime, heir) ==
  LET err == createCapsuleRevert(sender, chunks, unlockTime)
      w == createCapsuleWrites(sender, chunks, unlockTime, heir)
  IN  IF err # Ok
      THEN [result |-> err, ret |-> NoId, st |-> Ledger]
      ELSE [result |-> Ok, ret |-> w.capsuleId,
            st |-> [capsuleCounter |-> w.capsuleCounter, capsules |-> w.capsules,
                    userCapsules |-> w.userCapsules, acl |-> w.acl,
                    events |-> w.events]]

\* -------------------------------------------------------------- read surface
getTotalCapsules == capsuleCounter

getUserCapsules(user) == userCapsules[user]

\* mutant: the handles are handed out only once the capsule is unlocked
getEncryptedContents_OnlyUnlocked(capsuleId) ==
  IF ~capsules[capsuleId].exists THEN [result |-> NotFound, ret |-> <<>>]
  ELSE IF ~capsules[capsuleId].unlocked
       THEN [result |-> NotYet, ret |-> <<>>]
  ELSE [result |-> Ok, ret |-> capsules[capsuleId].encryptedContentChunks]

\* the view takes no account of msg.sender, of the clock or of unlocked
getEncryptedContents(capsuleId) ==
  IF ~capsules[capsuleId].exists THEN [result |-> NotFound, ret |-> <<>>]
  ELSE [result |-> Ok, ret |-> capsules[capsuleId].encryptedContentChunks]

\* mutant: the view requires the capsule to exist
getCapsuleInfo_Reverts(capsuleId) ==
  LET capsule == capsules[capsuleId]
  IN  IF ~capsule.exists
      THEN [result |-> NotFound,
            ret |-> [unlockTime |-> 0, owner |-> Zero, heir |-> Zero,
                     exists |-> FALSE, unlocked |-> FALSE]]
      ELSE [result |-> Ok,
            ret |-> [unlockTime |-> capsule.unlockTime, owner |-> capsule.owner,
                     heir |-> capsule.heir, exists |-> capsule.exists,
                     unlocked |-> capsule.unlocked]]

\* no require: the mapping's default (all-zero) record is returned for an
\* id that was never written
getCapsuleInfo(capsuleId) ==
  LET capsule == capsules[capsuleId]
  IN  [result |-> Ok,
       ret |-> [unlockTime |-> capsule.unlockTime, owner |-> capsule.owner,
                heir |-> capsule.heir, exists |-> capsule.exists,
                unlocked |-> capsule.unlocked]]

\* mutant: the already-unlocked check is missing
canUnlock_NoUnlockedCheck(capsuleId) ==
  LET capsule == capsules[capsuleId]
  IN  IF ~capsule.exists THEN [result |-> NotFound, ret |-> FALSE]
      ELSE [result |-> Ok, ret |-> now >= capsule.unlockTime]

\* mutant: the release instant itself is still too early
canUnlock_Strict(capsuleId) ==
  LET capsule == capsules[capsuleId]
  IN  IF ~capsule.exists THEN [result |-> NotFound, ret |-> FALSE]
      ELSE IF capsule.unlocked THEN [result |-> AlreadyUnlocked, ret |-> FALSE]
      ELSE [result |-> Ok, ret |-> now > capsule.unlockTime]

canUnlock(capsuleId) ==
  LET capsule == capsules[capsuleId]
  IN  IF ~capsule.exists THEN [result |-> NotFound, ret |-> FALSE]
      ELSE IF capsule.unlocked THEN [result |-> AlreadyUnlocked, ret |-> FALSE]
      ELSE [result |-> Ok, ret |-> now >= capsule.unlockTime]

\* ------------------------------------------------------------ unlockCapsule
\* mutant: the owner-or-heir check is missing
unlockCapsule_NoAuth(sender, capsuleId) ==
  LET capsule == capsules[capsuleId]
      cu == canUnlock(capsuleId)
      err == IF ~capsule.exists THEN NotFound
             ELSE IF capsule.unlocked THEN AlreadyUnlocked
             ELSE IF cu.result # Ok THEN cu.result
             ELSE IF ~cu.ret THEN NotYet
             ELSE Ok
  IN  IF err # Ok
      THEN [result |-> err, st |-> Ledger]
      ELSE [result |-> Ok,
            st |-> [Ledger EXCEPT
                      !.capsules = [capsules EXCEPT ![capsuleId].unlocked = TRUE],
                      !.events = Append(events, CapsuleUnlocked(capsuleId, sender))]]

\* mutant: neither unlockCapsule nor the time check looks at the unlocked flag
unlockCapsule_Repeatable(sender, capsuleId) ==
  LET capsule == capsules[capsuleId]
      err == IF ~capsule.exists THEN NotFound
             ELSE IF ~(now >= capsule.unlockTime) THEN NotYet
             ELSE IF ~(sender = capsule.owner \/ sender = capsule.heir)
                  THEN Unauthorized
             ELSE Ok
  IN  IF err # Ok
      THEN [result |-> err, st |-> Ledger]
      ELSE [result |-> Ok,
            st |-> [Ledger EXCEPT
                      !.capsules = [capsules EXCEPT ![capsuleId].unlocked = TRUE],
                      !.events = Append(events, CapsuleUnlocked(capsuleId, sender))]]

\* mutant: the owner-or-heir check comes before the time check
unlockCapsule_AuthFirst(sender, capsuleId) ==
  LET capsule == capsules[capsuleId]
      cu == canUnlock(capsuleId)
      err == IF ~capsule.exists THEN NotFound
             ELSE IF capsule.unlocked THEN AlreadyUnlocked
             ELSE IF ~(sender = capsule.owner \/ sender = capsule.heir)
                  THEN Unauthorized
             ELSE IF cu.result # Ok THEN cu.result
             ELSE IF ~cu.ret THEN NotYet
             ELSE Ok
  IN  IF err # Ok
      THEN [result |-> err, st |-> Ledger]
      ELSE [result |-> Ok,
            st |-> [Ledger EXCEPT
                      !.capsules = [capsules EXCEPT ![capsuleId].unlocked = TRUE],
                      !.events = Append(events, CapsuleUnlocked(capsuleId, sender))]]

\* mutant: a successful unlock also pushes the capsule id onto the sender's
\* index
unlockCapsule_Reindexes(sender, capsuleId) ==
  LET capsule == capsules[capsuleId]
      cu == canUnlock(capsuleId)
      err == IF ~capsule.exists THEN NotFound
             ELSE IF capsule.unlocked THEN AlreadyUnlocked
             ELSE IF cu.result # Ok THEN cu.result
             ELSE IF ~cu.ret THEN NotYet
             ELSE IF ~(sender = capsule.owner \/ sender = capsule.heir)
                  THEN Unauthorized
             ELSE Ok
  IN  IF err # Ok
      THEN [result |-> err, st |-> Ledger]
      ELSE [result |-> Ok,
            st |-> [Ledger EXCEPT
                      !.capsules = [capsules EXCEPT ![capsuleId].unlocked = TRUE],
                      !.userCapsules =
                         [userCapsules EXCEPT
                            ![sender] = Append(userCapsules[sender], capsuleId)],
                      !.events = Append(events, CapsuleUnlocked(capsuleId, sender))]]

unlockCapsule(sender, capsuleId) ==
  LET capsule == capsules[capsuleId]
      cu == canUnlock(capsuleId)
      err == IF ~capsule.exists THEN NotFound
             ELSE IF capsule.unlocked THEN AlreadyUnlocked
             ELSE IF cu.result # Ok THEN cu.result
             ELSE IF ~cu.ret THEN NotYet
             ELSE IF ~(sender = capsule.owner \/ sender = capsule.heir)
                  THEN Unauthorized
             ELSE Ok
  IN  IF err # Ok
      THEN [result |-> err, st |-> Ledger]
      ELSE [result |-> Ok,
            st |-> [Ledger EXCEPT
                      !.capsules = [capsules EXCEPT ![capsuleId].unlocked = TRUE],
                      !.events = Append(events, CapsuleUnlocked(capsuleId, sender))]]

\* -------------------------------------------------------------- userDecrypt
\* instance.userDecrypt(handles of the capsule, ...) asked for by `user`:
\* the engine reveals the words when the user and the store are allowed on
\* every handle; it never looks at the clock or at the unlocked flag.
userDecrypt(user, capsuleId) ==
  IF \A h \in Range(capsules[capsuleId].encryptedContentChunks) :
        user \in acl[h] /\ This \in acl[h]
  THEN Ok ELSE AclDenied

\* ------------------------------------------------------------------ actions
NoCall ==
  [op |-> "none", id |-> NoId, numChunks |-> 0, result |-> Ok]

Commit(st) ==
  /\ capsuleCounter' = st.capsuleCounter
  /\ capsules' = st.capsules
  /\ userCapsules' = st.userCapsules
  /\ acl' = st.acl
  /\ events' = st.events

\* ------------------------------------------------ the client hook: values
NumSigners == 2      \* wallet accounts the user switches between
NumChains == 2       \* networks the wallet switches between
MaxInFlight == 1     \* workflows of other kinds in flight when one starts, plus one
MaxClientCapsules == 1   \* creates the client's workflows get mined
MaxOverlap == 2      \* the same, where workflows of different kinds overlap
MaxRefreshCapsules == 2  \* creates mined where refreshCapsules is exercised

Signers == 1..NumSigners
Chains == 1..NumChains
\* the one network TimeCapsuleAddresses has an address for
DeployedChain == 1
\* timeCapsule.address is defined
Deployed(c) == c = DeployedChain

MAX_MESSAGE_BYTES == 1024
\* byte lengths of the content passed to createCapsule: empty, one full
\* chunk, one byte over the cap
PayloadSizes == {0, 4, MAX_MESSAGE_BYTES + 1}
\* Math.ceil(bytes.length / 4)
chunkCount(nBytes) == (nBytes + 3) \div 4

NoContent == <<>>    \* decryptedContent / encryptedContentHandles undefined

NoCreate ==
  [pc |-> "idle", thisEthersSigner |-> Zero, numChunks |-> 0,
   handles |-> <<>>, unlockTime |-> 0, heir |-> Zero]
NoUnlock == [pc |-> "idle", thisEthersSigner |-> Zero, capsuleId |-> NoId]
NoRefresh ==
  [pc |-> "idle", thisEthersSigner |-> Zero, allCapsuleIds |-> <<>>]

NoDecrypt ==
  [pc |-> "idle", thisEthersSigner |-> Zero, thisCapsuleId |-> NoId,
   handles |-> <<>>]

InitHook ==
  /\ now = 0
  /\ capsuleCounter = 0
  /\ capsules = [id \in CapsuleIds |-> NoCapsule]
  /\ userCapsules = [u \in Users |-> <<>>]
  /\ acl = [h \in Handles |-> {}]
  /\ events = <<>>
  /\ lastCall = NoCall
  \* the hook as mounted: account 1 connected on the deployed network,
  \* the mount effect has called loadUserCapsules
  /\ ethersSigner = 1
  /\ chainId = DeployedChain
  /\ uiCapsules = <<>>
  /\ userCapsuleIds = <<>>
  /\ message = ""
  /\ isCreatingRef = FALSE
  /\ isUnlockingRef = FALSE
  /\ isDecryptingRef = FALSE
  /\ createRun = NoCreate
  /\ unlockRun = NoUnlock
  /\ decryptRun = NoDecrypt
  /\ indexLoads = {1}
  /\ detailLoads = {}
  /\ loadOrSignCalls = 0
  /\ refreshRun = NoRefresh

\* no payload in the codec
Init ==
  /\ InitHook
  /\ bytes = <<>>
  /\ uint32Chunks = <<>>
  /\ trimmed = <<>>
  /\ codecPc = "input"

CreateCapsule ==
  \E sender \in Users, chunks \in ChunkLists,
     unlockTime \in Times, heir \in {Zero} \cup Users :
    LET r == createCapsule(sender, chunks, unlockTime, heir)
    IN  /\ r.result = Ok => capsuleCounter < MaxCapsules
        /\ Commit(r.st)
        /\ lastCall' = [op |-> "createCapsule", id |-> r.ret,
                        numChunks |-> Len(chunks), result |-> r.result]
        /\ UNCHANGED <<now, clientVars>>

UnlockCapsule ==
  \E sender \in Users, capsuleId \in CapsuleIds :
    LET r == unlockCapsule(sender, capsuleId)
    IN  /\ Commit(r.st)
        /\ lastCall' = [op |-> "unlockCapsule", id |-> capsuleId,
                        numChunks |-> 0, result |-> r.result]
        /\ UNCHANGED <<now, clientVars>>

UserDecrypt ==
  \E user \in Users, capsuleId \in CapsuleIds :
    /\ capsules[capsuleId].exists
    /\ lastCall' = [op |-> "userDecrypt", id |-> capsuleId, numChunks |-> 0,
                    result |-> userDecrypt(user, capsuleId)]
    /\ UNCHANGED <<now, store, clientVars>>

\* the ledger clock advances between transactions
Tick ==
  /\ now < MaxTime
  /\ now' = now + 1
  /\ lastCall' = NoCall
  /\ UNCHANGED <<store, clientVars>>

Next == CreateCapsule \/ UnlockCapsule \/ UserDecrypt \/ Tick

Spec == Init /\ [][Next]_vars

\* ------------------------------------------------- the views, called
\* view functions: a call reads the store and changes nothing
GetCapsuleInfo ==
  \E capsuleId \in CapsuleIds :
    /\ lastCall' = [op |-> "getCapsuleInfo", id |-> capsuleId, numChunks |-> 0,
                    result |-> getCapsuleInfo(capsuleId).result]
    /\ UNCHANGED <<now, store, clientVars>>

CanUnlock ==
  \E capsuleId \in CapsuleIds :
    /\ lastCall' = [op |-> "canUnlock", id |-> capsuleId, numChunks |-> 0,
                    result |-> canUnlock(capsuleId).result]
    /\ UNCHANGED <<now, store, clientVars>>

GetEncryptedContents ==
  \E capsuleId \in CapsuleIds :
    LET r == getEncryptedContents(capsuleId)
    IN  /\ lastCall' = [op |-> "getEncryptedContents", id |-> capsuleId,
                        numChunks |-> Len(r.ret), result |-> r.result]
        /\ UNCHANGED <<now, store, clientVars>>

NextRead ==
  \/ CreateCapsule
  \/ UnlockCapsule
  \/ Tick
  \/ GetCapsuleInfo
  \/ CanUnlock
  \/ GetEncryptedContents

SpecRead == Init /\ [][NextRead]_vars

\* =====================================================================
\* The client hook useTimeCapsule: its workflows, one action per await
\* =====================================================================
ClientIds == 0..MaxClientCapsules

\* isStale(): the active network or identity is no longer the captured one
\* (a workflow only starts on the deployed network, so thisChainId and
\* thisTimeCapsuleAddress are those of DeployedChain)
isStale(thisEthersSigner) ==
  \/ ~Deployed(chainId)
  \/ chainId # DeployedChain
  \/ ethersSigner # thisEthersSigner

InFlight ==
  Cardinality({k \in {"create", "unlock", "decrypt"} :
     \/ k = "create" /\ createRun.pc # "idle"
     \/ k = "unlock" /\ unlockRun.pc # "idle"
     \/ k = "decrypt" /\ decryptRun.pc # "idle"})

\* the workflows of the other kinds that are in flight
OthersInFlight(kind) ==
  Cardinality({k \in {"create", "unlock", "decrypt"} \ {kind} :
     \/ k = "create" /\ createRun.pc # "idle"
     \/ k = "unlock" /\ unlockRun.pc # "idle"
     \/ k = "decrypt" /\ decryptRun.pc # "idle"})

\* the record loadCapsuleDetails builds from getCapsuleInfo and
\* getEncryptedContents (whose failure is caught and leaves the handles
\* undefined); it carries no decryptedContent
LoadedCapsule(capsuleId) ==
  LET info == getCapsuleInfo(capsuleId).ret
      encryptedContents == getEncryptedContents(capsuleId)
  IN  [id |-> capsuleId, unlockTime |-> info.unlockTime, owner |-> info.owner,
       heir |-> info.heir, exists |-> info.exists, unlocked |-> info.unlocked,
       encryptedContentHandles |->
         IF encryptedContents.result = Ok THEN encryptedContents.ret
         ELSE NoContent,
       decryptedContent |-> NoContent]

\* mutant: the loaded record is appended without filtering out the old one
PutCapsule_Appends(prev, capsule) == prev \o <<capsule>>

\* setCapsules(prev => [...prev.filter(c => c.id !== capsuleId), capsule])
PutCapsule(prev, capsule) ==
  SelectSeq(prev, LAMBDA c : c.id # capsule.id) \o <<capsule>>

\* setCapsules(prev => prev.map(c => c.id === id ? {...c, decryptedContent} : c))
SetDecrypted(prev, capsuleId, content) ==
  [i \in 1..Len(prev) |->
     IF prev[i].id = capsuleId
     THEN [prev[i] EXCEPT !.decryptedContent = content]
     ELSE prev[i]]

\* setUserCapsuleIds(ids), and the effect on userCapsuleIds that follows it:
\* loadCapsuleDetails(id) for every id, each returning at once when the
\* active network has no address
SetUserCapsuleIds(ids) ==
  /\ userCapsuleIds' = ids
  /\ detailLoads' =
       IF Deployed(chainId) THEN detailLoads \cup Range(ids) ELSE detailLoads

\* ---------------------------------------------------- wallet and effects
\* the wallet switches account; the effect on ethersSigner calls
\* loadUserCapsules when the active network has an address
SwitchSigner ==
  \E u \in Signers \ {ethersSigner} :
    /\ ethersSigner' = u
    /\ indexLoads' = IF Deployed(chainId) THEN indexLoads \cup {u} ELSE indexLoads
    /\ UNCHANGED <<ledgerVars, codecVars, loadOrSignCalls, refreshRun, chainId, uiCapsules, userCapsuleIds, message,
                   isCreatingRef, isUnlockingRef, isDecryptingRef,
                   createRun, unlockRun, decryptRun, detailLoads>>

\* the wallet switches network; the effect on timeCapsule.address calls
\* loadUserCapsules when the new network has an address
SwitchChain ==
  \E c \in Chains \ {chainId} :
    /\ chainId' = c
    /\ indexLoads' = IF Deployed(c) THEN indexLoads \cup {ethersSigner}
                     ELSE indexLoads
    /\ UNCHANGED <<ledgerVars, codecVars, loadOrSignCalls, refreshRun, ethersSigner, uiCapsules, userCapsuleIds,
                   message, isCreatingRef, isUnlockingRef, isDecryptingRef,
                   createRun, unlockRun, decryptRun, detailLoads>>

\* a loadUserCapsules call started by the effect resolves
IndexLoadResolve ==
  \E s \in indexLoads :
    /\ indexLoads' = indexLoads \ {s}
    /\ SetUserCapsuleIds(getUserCapsules(s))
    /\ UNCHANGED <<ledgerVars, codecVars, loadOrSignCalls, refreshRun, ethersSigner, chainId, uiCapsules, message,
                   isCreatingRef, isUnlockingRef, isDecryptingRef,
                   createRun, unlockRun, decryptRun>>

\* ... or its read fails
IndexLoadReject ==
  \E s \in indexLoads :
    /\ indexLoads' = indexLoads \ {s}
    /\ message' = "Failed to load capsules"
    /\ UNCHANGED <<ledgerVars, codecVars, loadOrSignCalls, refreshRun, ethersSigner, chainId, uiCapsules,
                   userCapsuleIds, isCreatingRef, isUnlockingRef,
                   isDecryptingRef, createRun, unlockRun, decryptRun,
                   detailLoads>>

\* a loadCapsuleDetails call started by the effect resolves
DetailLoadResolve ==
  \E capsuleId \in detailLoads :
    /\ detailLoads' = detailLoads \ {capsuleId}
    /\ uiCapsules' = PutCapsule(uiCapsules, LoadedCapsule(capsuleId))
    /\ UNCHANGED <<ledgerVars, codecVars, loadOrSignCalls, refreshRun, ethersSigner, chainId, userCapsuleIds, message,
                   isCreatingRef, isUnlockingRef, isDecryptingRef,
                   createRun, unlockRun, decryptRun, indexLoads>>

\* ... or getCapsuleInfo fails (logged only)
DetailLoadReject ==
  \E capsuleId \in detailLoads :
    /\ detailLoads' = detailLoads \ {capsuleId}
    /\ UNCHANGED <<ledgerVars, codecVars, loadOrSignCalls, refreshRun, ethersSigner, chainId, uiCapsules,
                   userCapsuleIds, message, isCreatingRef, isUnlockingRef,
                   isDecryptingRef, createRun, unlockRun, decryptRun,
                   indexLoads>>

\* ------------------------------------------------- createCapsule workflow
\* what no step of the create workflow touches
CreateFrame ==
  UNCHANGED <<codecVars, loadOrSignCalls, refreshRun, ethersSigner, chainId, uiCapsules, isUnlockingRef,
              isDecryptingRef, unlockRun, decryptRun, indexLoads>>

\* mutant: the finally block is missing, a return or a caught failure
\* leaves the busy flag as it is
EndCreate_NoFinally(msg) ==
  /\ createRun' = NoCreate
  /\ UNCHANGED isCreatingRef
  /\ message' = msg

\* return / catch, then the finally block
EndCreate(msg) ==
  /\ createRun' = NoCreate
  /\ isCreatingRef' = FALSE
  /\ message' = msg

\* mutant: the two payload checks are missing, every payload is packed
CreateStartWithin_NoSizeCheck(limit) ==
  \E nBytes \in PayloadSizes, unlockTime \in Times, heir \in {Zero} \cup Signers :
    /\ ~isCreatingRef
    /\ Deployed(chainId)
    /\ OthersInFlight("create") < limit
    /\ isCreatingRef' = TRUE
    /\ message' = "Encrypting content..."
    /\ createRun' = [pc |-> "encrypt", thisEthersSigner |-> ethersSigner,
                     numChunks |-> chunkCount(nBytes), handles |-> <<>>,
                     unlockTime |-> unlockTime, heir |-> heir]
    /\ CreateFrame
    /\ UNCHANGED <<ledgerVars, userCapsuleIds, detailLoads>>

\* createCapsule(content, unlockTime, heir) up to its first await: the guard,
\* the busy flag, the snapshot and the two payload checks, whose return
\* runs the finally block in the same turn
CreateStartWithin(limit) ==
  \E nBytes \in PayloadSizes, unlockTime \in Times, heir \in {Zero} \cup Signers :
    /\ ~isCreatingRef
    /\ Deployed(chainId)
    /\ OthersInFlight("create") < limit
    /\ IF nBytes = 0
       THEN message' = "Message is empty"
            /\ UNCHANGED <<createRun, isCreatingRef>>
       ELSE IF nBytes > MAX_MESSAGE_BYTES
       THEN message' = "Message is too long"
            /\ UNCHANGED <<createRun, isCreatingRef>>
       ELSE /\ isCreatingRef' = TRUE
            /\ message' = "Encrypting content..."
            /\ createRun' = [pc |-> "encrypt", thisEthersSigner |-> ethersSigner,
                             numChunks |-> chunkCount(nBytes), handles |-> <<>>,
                             unlockTime |-> unlockTime, heir |-> heir]
    /\ CreateFrame
    /\ UNCHANGED <<ledgerVars, userCapsuleIds, detailLoads>>

\* one workflow in flight at a time, MaxClientCapsules capsules at most
CreateStart ==
  /\ capsuleCounter < MaxClientCapsules
  /\ CreateStartWithin(MaxInFlight)

\* workflows of different kinds overlapping
CreateStartOverlap ==
  /\ capsuleCounter < MaxClientCapsules
  /\ CreateStartWithin(MaxOverlap)

\* one workflow in flight at a time, MaxRefreshCapsules capsules at most
CreateStartRefresh ==
  /\ capsuleCounter < MaxRefreshCapsules
  /\ CreateStartWithin(MaxInFlight)

\* mutant: no staleness check after input.encrypt()
CreateEncryptResolve_NoStaleCheck ==
  /\ createRun.pc = "encrypt"
  /\ \E handles \in [1..createRun.numChunks ->
                       {h \in Handles : HandleUser(h) = createRun.thisEthersSigner}] :
       /\ createRun' = [createRun EXCEPT !.pc = "send", !.handles = handles]
       /\ message' = "Sending transaction..."
       /\ UNCHANGED isCreatingRef
  /\ CreateFrame
  /\ UNCHANGED <<ledgerVars, userCapsuleIds, detailLoads>>

\* input.encrypt() resolves with handles bound to the captured signer;
\* first staleness check
CreateEncryptResolve ==
  /\ createRun.pc = "encrypt"
  /\ \E handles \in [1..createRun.numChunks ->
                       {h \in Handles : HandleUser(h) = createRun.thisEthersSigner}] :
       IF isStale(createRun.thisEthersSigner)
       THEN EndCreate("Operation cancelled")
       ELSE /\ createRun' = [createRun EXCEPT !.pc = "send", !.handles = handles]
            /\ message' = "Sending transaction..."
            /\ UNCHANGED isCreatingRef
  /\ CreateFrame
  /\ UNCHANGED <<ledgerVars, userCapsuleIds, detailLoads>>

CreateEncryptReject ==
  /\ createRun.pc = "encrypt"
  /\ EndCreate("Failed to create capsule")
  /\ CreateFrame
  /\ UNCHANGED <<ledgerVars, userCapsuleIds, detailLoads>>

\* contract.createCapsule(...) resolves: the transaction is submitted
CreateSendResolve ==
  /\ createRun.pc = "send"
  /\ createRun' = [createRun EXCEPT !.pc = "wait"]
  /\ message' = "Waiting for transaction"
  /\ CreateFrame
  /\ UNCHANGED <<ledgerVars, userCapsuleIds, detailLoads, isCreatingRef>>

\* mutant: a refused submission is retried from the encryption step instead
\* of ending the workflow
CreateSendReject_Retries ==
  /\ createRun.pc = "send"
  /\ createRun' = [createRun EXCEPT !.pc = "encrypt", !.handles = <<>>]
  /\ message' = "Failed to create capsule"
  /\ CreateFrame
  /\ UNCHANGED <<ledgerVars, userCapsuleIds, detailLoads, isCreatingRef>>

\* ... or the wallet refuses it
CreateSendReject ==
  /\ createRun.pc = "send"
  /\ EndCreate("Failed to create capsule")
  /\ CreateFrame
  /\ UNCHANGED <<ledgerVars, userCapsuleIds, detailLoads>>

\* mutant: a stale context after tx.wait() undoes what the transaction wrote
CreateMined_RollsBack ==
  /\ createRun.pc = "wait"
  /\ LET r == createCapsule(createRun.thisEthersSigner, createRun.handles,
                            createRun.unlockTime, createRun.heir)
     IN  IF r.result # Ok
         THEN Commit(r.st) /\ EndCreate("Failed to create capsule")
         ELSE IF isStale(createRun.thisEthersSigner)
         THEN Commit(Ledger) /\ EndCreate("Operation cancelled")
         ELSE /\ Commit(r.st)
              /\ createRun' = [createRun EXCEPT !.pc = "load"]
              /\ message' = "Capsule created!"
              /\ UNCHANGED isCreatingRef
  /\ CreateFrame
  /\ UNCHANGED <<now, lastCall, userCapsuleIds, detailLoads>>

\* tx.wait() settles: the store runs createCapsule sent by the captured
\* signer; a revert rejects, otherwise second staleness check
CreateMined ==
  /\ createRun.pc = "wait"
  /\ LET r == createCapsule(createRun.thisEthersSigner, createRun.handles,
                            createRun.unlockTime, createRun.heir)
     IN  /\ Commit(r.st)
         /\ IF r.result # Ok THEN EndCreate("Failed to create capsule")
            ELSE IF isStale(createRun.thisEthersSigner)
            THEN EndCreate("Operation cancelled")
            ELSE /\ createRun' = [createRun EXCEPT !.pc = "load"]
                 /\ message' = "Capsule created!"
                 /\ UNCHANGED isCreatingRef
  /\ CreateFrame
  /\ UNCHANGED <<now, lastCall, userCapsuleIds, detailLoads>>

\* await loadUserCapsules() resolves: the ids of the captured signer are
\* set, with no staleness check; then finally
CreateLoadResolve ==
  /\ createRun.pc = "load"
  /\ SetUserCapsuleIds(getUserCapsules(createRun.thisEthersSigner))
  /\ createRun' = NoCreate
  /\ isCreatingRef' = FALSE
  /\ CreateFrame
  /\ UNCHANGED <<ledgerVars, message>>

\* ... or its read fails, which loadUserCapsules catches itself
CreateLoadReject ==
  /\ createRun.pc = "load"
  /\ EndCreate("Failed to load capsules")
  /\ CreateFrame
  /\ UNCHANGED <<ledgerVars, userCapsuleIds, detailLoads>>

CreateStep ==
  \/ CreateEncryptResolve \/ CreateEncryptReject
  \/ CreateSendResolve \/ CreateSendReject
  \/ CreateMined
  \/ CreateLoadResolve \/ CreateLoadReject

\* ------------------------------------------------- unlockCapsule workflow
UnlockFrame ==
  UNCHANGED <<codecVars, loadOrSignCalls, refreshRun, ethersSigner, chainId, userCapsuleIds, isCreatingRef,
              isDecryptingRef, createRun, decryptRun, indexLoads, detailLoads>>

EndUnlock(msg) ==
  /\ unlockRun' = NoUnlock
  /\ isUnlockingRef' = FALSE
  /\ message' = msg

\* mutant: the isUnlockingRef guard is missing
UnlockStart_NoGuard ==
  \E capsuleId \in ClientIds :
    /\ Deployed(chainId)
    /\ OthersInFlight("unlock") < MaxInFlight
    /\ isUnlockingRef' = TRUE
    /\ message' = "Unlocking capsule..."
    /\ unlockRun' = [pc |-> "send", thisEthersSigner |-> ethersSigner,
                     capsuleId |-> capsuleId]
    /\ UnlockFrame
    /\ UNCHANGED <<ledgerVars, uiCapsules>>

\* unlockCapsule(capsuleId) up to its first await
UnlockStartWithin(limit) ==
  \E capsuleId \in ClientIds :
    /\ ~isUnlockingRef
    /\ Deployed(chainId)
    /\ OthersInFlight("unlock") < limit
    /\ isUnlockingRef' = TRUE
    /\ message' = "Unlocking capsule..."
    /\ unlockRun' = [pc |-> "send", thisEthersSigner |-> ethersSigner,
                     capsuleId |-> capsuleId]
    /\ UnlockFrame
    /\ UNCHANGED <<ledgerVars, uiCapsules>>

UnlockStart == UnlockStartWithin(MaxInFlight)

\* contract.unlockCapsule(capsuleId) resolves: the transaction is submitted
UnlockSendResolve ==
  /\ unlockRun.pc = "send"
  /\ unlockRun' = [unlockRun EXCEPT !.pc = "wait"]
  /\ message' = "Waiting for transaction"
  /\ UnlockFrame
  /\ UNCHANGED <<ledgerVars, uiCapsules, isUnlockingRef>>

UnlockSendReject ==
  /\ unlockRun.pc = "send"
  /\ EndUnlock("Failed to unlock capsule")
  /\ UnlockFrame
  /\ UNCHANGED <<ledgerVars, uiCapsules>>

\* mutant: the unlock transaction is only waited for once no create workflow
\* is running
UnlockMined_AfterCreate ==
  /\ unlockRun.pc = "wait"
  /\ createRun.pc = "idle"
  /\ LET r == unlockCapsule(unlockRun.thisEthersSigner, unlockRun.capsuleId)
     IN  /\ Commit(r.st)
         /\ IF r.result # Ok THEN EndUnlock("Failed to unlock capsule")
            ELSE IF isStale(unlockRun.thisEthersSigner)
            THEN EndUnlock("Operation cancelled")
            ELSE /\ unlockRun' = [unlockRun EXCEPT !.pc = "load"]
                 /\ message' = "Capsule unlocked!"
                 /\ UNCHANGED isUnlockingRef
  /\ UnlockFrame
  /\ UNCHANGED <<now, lastCall, uiCapsules>>

\* tx.wait() settles: the store runs unlockCapsule sent by the captured
\* signer; a revert rejects, otherwise the staleness check
UnlockMined ==
  /\ unlockRun.pc = "wait"
  /\ LET r == unlockCapsule(unlockRun.thisEthersSigner, unlockRun.capsuleId)
     IN  /\ Commit(r.st)
         /\ IF r.result # Ok THEN EndUnlock("Failed to unlock capsule")
            ELSE IF isStale(unlockRun.thisEthersSigner)
            THEN EndUnlock("Operation cancelled")
            ELSE /\ unlockRun' = [unlockRun EXCEPT !.pc = "load"]
                 /\ message' = "Capsule unlocked!"
                 /\ UNCHANGED isUnlockingRef
  /\ UnlockFrame
  /\ UNCHANGED <<now, lastCall, uiCapsules>>

\* await loadCapsuleDetails(capsuleId) resolves: the record is replaced,
\* with no staleness check; then finally
UnlockLoadResolve ==
  /\ unlockRun.pc = "load"
  /\ uiCapsules' = PutCapsule(uiCapsules, LoadedCapsule(unlockRun.capsuleId))
  /\ unlockRun' = NoUnlock
  /\ isUnlockingRef' = FALSE
  /\ UnlockFrame
  /\ UNCHANGED <<ledgerVars, message>>

\* ... or its read fails, which loadCapsuleDetails catches itself
UnlockLoadReject ==
  /\ unlockRun.pc = "load"
  /\ unlockRun' = NoUnlock
  /\ isUnlockingRef' = FALSE
  /\ UnlockFrame
  /\ UNCHANGED <<ledgerVars, uiCapsules, message>>

UnlockStep ==
  \/ UnlockSendResolve \/ UnlockSendReject
  \/ UnlockMined
  \/ UnlockLoadResolve \/ UnlockLoadReject

\* ----------------------------------------- decryptCapsuleContent workflow
DecryptFrame ==
  UNCHANGED <<ledgerVars, codecVars, refreshRun, ethersSigner, chainId, userCapsuleIds,
              isCreatingRef, isUnlockingRef, createRun, unlockRun,
              indexLoads, detailLoads>>

\* mutant: the finally block is missing
EndDecrypt_NoFinally(msg) ==
  /\ decryptRun' = NoDecrypt
  /\ UNCHANGED isDecryptingRef
  /\ message' = msg

EndDecrypt(msg) ==
  /\ decryptRun' = NoDecrypt
  /\ isDecryptingRef' = FALSE
  /\ message' = msg

\* capsules.find(c => c.id === capsuleId): the cached handles, or none
CachedHandles(capsuleId) ==
  IF \E i \in 1..Len(uiCapsules) : uiCapsules[i].id = capsuleId
  THEN LET i == CHOOSE k \in 1..Len(uiCapsules) : uiCapsules[k].id = capsuleId
       IN  uiCapsules[i].encryptedContentHandles
  ELSE NoContent

\* mutant: the cached record is not looked up before the flag is set
DecryptStartWithin_NoLookup(limit) ==
  \E capsuleId \in ClientIds :
    /\ ~isDecryptingRef
    /\ Deployed(chainId)
    /\ OthersInFlight("decrypt") < limit
    /\ isDecryptingRef' = TRUE
    /\ message' = "Decrypting content..."
    /\ decryptRun' = [pc |-> "sign", thisEthersSigner |-> ethersSigner,
                      thisCapsuleId |-> capsuleId,
                      handles |-> CachedHandles(capsuleId)]
    /\ loadOrSignCalls' = loadOrSignCalls + 1
    /\ DecryptFrame
    /\ UNCHANGED uiCapsules

\* mutant: the busy flag is not read, a second call starts while one is in
\* flight
DecryptStartWithin_NoGuard(limit) ==
  \E capsuleId \in ClientIds :
    /\ Deployed(chainId)
    /\ OthersInFlight("decrypt") < limit
    /\ IF CachedHandles(capsuleId) = NoContent
       THEN message' = "Capsule content not found"
            /\ UNCHANGED <<decryptRun, isDecryptingRef, loadOrSignCalls>>
       ELSE /\ isDecryptingRef' = TRUE
            /\ message' = "Decrypting content..."
            /\ decryptRun' = [pc |-> "sign", thisEthersSigner |-> ethersSigner,
                              thisCapsuleId |-> capsuleId,
                              handles |-> CachedHandles(capsuleId)]
            /\ loadOrSignCalls' = loadOrSignCalls + 1
    /\ DecryptFrame
    /\ UNCHANGED uiCapsules

\* decryptCapsuleContent(capsuleId) up to its first await: the guard, the
\* lookup of the cached record and only then the busy flag
DecryptStartWithin(limit) ==
  \E capsuleId \in ClientIds :
    /\ ~isDecryptingRef
    /\ Deployed(chainId)
    /\ OthersInFlight("decrypt") < limit
    /\ IF CachedHandles(capsuleId) = NoContent
       THEN message' = "Capsule content not found"
            /\ UNCHANGED <<decryptRun, isDecryptingRef, loadOrSignCalls>>
       ELSE /\ isDecryptingRef' = TRUE
            /\ message' = "Decrypting content..."
            /\ decryptRun' = [pc |-> "sign", thisEthersSigner |-> ethersSigner,
                              thisCapsuleId |-> capsuleId,
                              handles |-> CachedHandles(capsuleId)]
            /\ loadOrSignCalls' = loadOrSignCalls + 1
    /\ DecryptFrame
    /\ UNCHANGED uiCapsules

DecryptStart == DecryptStartWithin(MaxInFlight)

\* FhevmDecryptionSignature.loadOrSign resolves, with a signature or with
\* null; first staleness check
DecryptSignResolve ==
  /\ decryptRun.pc = "sign"
  /\ loadOrSignCalls' = loadOrSignCalls - 1
  /\ \E sig \in BOOLEAN :
       IF ~sig THEN EndDecrypt("Unable to build decryption signature")
       ELSE IF isStale(decryptRun.thisEthersSigner)
       THEN EndDecrypt("Operation cancelled")
       ELSE /\ decryptRun' = [decryptRun EXCEPT !.pc = "decrypt"]
            /\ message' = "Calling FHEVM userDecrypt..."
            /\ UNCHANGED isDecryptingRef
  /\ DecryptFrame
  /\ UNCHANGED uiCapsules

DecryptSignReject ==
  /\ decryptRun.pc = "sign"
  /\ loadOrSignCalls' = loadOrSignCalls - 1
  /\ EndDecrypt("Decryption failed")
  /\ DecryptFrame
  /\ UNCHANGED uiCapsules

\* instance.userDecrypt resolves, which takes the engine's read right on
\* every handle for the signature's user; second staleness check, then the
\* clear text is attached to the cached record
DecryptRevealResolve ==
  /\ decryptRun.pc = "decrypt"
  /\ UNCHANGED loadOrSignCalls
  /\ \A h \in Range(decryptRun.handles) :
       decryptRun.thisEthersSigner \in acl[h] /\ This \in acl[h]
  /\ IF isStale(decryptRun.thisEthersSigner)
     THEN EndDecrypt("Operation cancelled") /\ UNCHANGED uiCapsules
     ELSE /\ uiCapsules' = SetDecrypted(uiCapsules, decryptRun.thisCapsuleId,
                                        decryptRun.handles)
          /\ EndDecrypt("Content decrypted successfully!")
  /\ DecryptFrame

\* ... or rejects (the engine denies the read, or the relayer fails)
DecryptRevealReject ==
  /\ decryptRun.pc = "decrypt"
  /\ UNCHANGED loadOrSignCalls
  /\ EndDecrypt("Decryption failed")
  /\ DecryptFrame
  /\ UNCHANGED uiCapsules

DecryptStep ==
  \/ DecryptSignResolve \/ DecryptSignReject
  \/ DecryptRevealResolve \/ DecryptRevealReject

\* ------------------------------------------------------- refreshCapsules
\* what no step of refreshCapsules touches
RefreshFrame ==
  UNCHANGED <<ledgerVars, codecVars, ethersSigner, chainId, isCreatingRef,
              isUnlockingRef, isDecryptingRef, createRun, unlockRun,
              decryptRun, indexLoads, loadOrSignCalls>>

\* Array.from(new Set([...userCapsuleIds, ...capsules.map(c => c.id)])):
\* the ids in order of first occurrence
RECURSIVE Distinct(_)
Distinct(ids) ==
  IF ids = <<>> THEN <<>>
  ELSE LET init == Distinct(SubSeq(ids, 1, Len(ids) - 1))
           last == ids[Len(ids)]
       IN  IF last \in Range(init) THEN init ELSE Append(init, last)

\* the ids of the cached records, in order
CachedIds == [i \in 1..Len(uiCapsules) |-> uiCapsules[i].id]

\* refreshCapsules() up to its first await: the guard, then
\* loadUserCapsules() is called; the ids to reload are those of the render
\* the callback belongs to
RefreshStart ==
  /\ refreshRun.pc = "idle"
  /\ Deployed(chainId)
  /\ refreshRun' = [pc |-> "index", thisEthersSigner |-> ethersSigner,
                    allCapsuleIds |-> Distinct(userCapsuleIds \o CachedIds)]
  /\ RefreshFrame
  /\ UNCHANGED <<uiCapsules, userCapsuleIds, detailLoads, message>>

\* the run after loadUserCapsules: on to the first loadCapsuleDetails, or
\* done when there is no id to reload
AfterIndex ==
  IF refreshRun.allCapsuleIds = <<>> THEN NoRefresh
  ELSE [refreshRun EXCEPT !.pc = "details"]

\* await loadUserCapsules() resolves: the ids of the captured signer are set
RefreshIndexResolve ==
  /\ refreshRun.pc = "index"
  /\ SetUserCapsuleIds(getUserCapsules(refreshRun.thisEthersSigner))
  /\ refreshRun' = AfterIndex
  /\ RefreshFrame
  /\ UNCHANGED <<uiCapsules, message>>

\* ... or its read fails, which loadUserCapsules catches itself
RefreshIndexReject ==
  /\ refreshRun.pc = "index"
  /\ message' = "Failed to load capsules"
  /\ refreshRun' = AfterIndex
  /\ RefreshFrame
  /\ UNCHANGED <<uiCapsules, userCapsuleIds, detailLoads>>

\* the run after one loadCapsuleDetails: on to the next id, or done
AfterDetail ==
  IF Len(refreshRun.allCapsuleIds) = 1 THEN NoRefresh
  ELSE [refreshRun EXCEPT !.allCapsuleIds = Tail(refreshRun.allCapsuleIds)]

\* await loadCapsuleDetails(id) resolves for the next id of the loop: the
\* cached record of that id is replaced
RefreshDetailResolve ==
  /\ refreshRun.pc = "details"
  /\ uiCapsules' = PutCapsule(uiCapsules,
                              LoadedCapsule(Head(refreshRun.allCapsuleIds)))
  /\ refreshRun' = AfterDetail
  /\ RefreshFrame
  /\ UNCHANGED <<userCapsuleIds, detailLoads, message>>

\* ... or its read fails, which loadCapsuleDetails catches itself
RefreshDetailReject ==
  /\ refreshRun.pc = "details"
  /\ refreshRun' = AfterDetail
  /\ RefreshFrame
  /\ UNCHANGED <<uiCapsules, userCapsuleIds, detailLoads, message>>

RefreshStep ==
  \/ RefreshIndexResolve \/ RefreshIndexReject
  \/ RefreshDetailResolve \/ RefreshDetailReject

\* the client with refreshCapsules among its operations, the wallet staying
\* on the account and network the hook was mounted with
NextRefresh ==
  \/ IndexLoadResolve
  \/ IndexLoadReject
  \/ DetailLoadResolve
  \/ DetailLoadReject
  \/ RefreshStart
  \/ RefreshStep
  \/ CreateStartRefresh
  \/ CreateStep
  \/ DecryptStart
  \/ DecryptStep

SpecRefresh == Init /\ [][NextRefresh]_vars

\* --------------------------------------------------- the client at work
NextClient ==
  \/ SwitchSigner
  \/ SwitchChain
  \/ IndexLoadResolve
  \/ IndexLoadReject
  \/ DetailLoadResolve
  \/ DetailLoadReject
  \/ CreateStart
  \/ CreateStep
  \/ UnlockStart
  \/ UnlockStep
  \/ DecryptStart
  \/ DecryptStep
  \/ Tick

SpecClient == Init /\ [][NextClient]_vars

\* the client with workflows of different kinds overlapping, the wallet
\* staying on the account and network the hook was mounted with
NextOverlap ==
  \/ IndexLoadResolve
  \/ IndexLoadReject
  \/ DetailLoadResolve
  \/ DetailLoadReject
  \/ CreateStartOverlap
  \/ CreateStep
  \/ UnlockStartWithin(MaxOverlap)
  \/ UnlockStep
  \/ DecryptStartWithin(MaxOverlap)
  \/ DecryptStep
  \/ Tick

SpecOverlap == Init /\ [][NextOverlap]_vars

\* the overlapping client with every awaited call eventually settling
SpecOverlapFair ==
  /\ SpecOverlap
  /\ WF_vars(CreateStep)
  /\ WF_vars(UnlockStep)
  /\ WF_vars(DecryptStep)

\* every awaited engine, ledger and signature call eventually resolves or
\* rejects
SpecClientFair ==
  /\ SpecClient
  /\ WF_vars(CreateStep)
  /\ WF_vars(UnlockStep)
  /\ WF_vars(DecryptStep)

TypeOK ==
  /\ now \in 0..MaxTime
  /\ capsuleCounter \in 0..MaxCapsules
  /\ \A id \in CapsuleIds : capsules[id].unlockTime \in Times
  /\ \A h \in Handles : acl[h] \subseteq Users \cup {This}

\* ------------------------------------------------------- the chunk codec
\* createCapsule packs the payload bytes into uint32 words before encrypting
\* them (lines 263-273); decryptCapsuleContent unpacks the revealed words,
\* trims the trailing zeros and decodes the text (lines 477-493).  The words
\* travel through the engine and the ledger as 32-bit values and come back
\* as they went in.
MaxBytes == 5
Half == 2^16                              \* a 32-bit value is held as <<high half, low half>>
ByteValues == {0, 1, 104, 105, 128, 255}  \* elements of a Uint8Array
Payloads == UNION {[1..n -> ByteValues] : n \in 0..MaxBytes}

\* A JavaScript number of the packing arithmetic is the pair <<hi, lo>>
\* standing for hi * 2^16 + lo with lo in 0..2^16-1; hi is negative for a
\* negative number.

\* x << n of JavaScript for a byte x: the product wrapped to a signed
\* 32-bit integer
shl(x, n) ==
  LET hi == IF n >= 16 THEN (x * 2^(n - 16)) % Half ELSE (x * 2^n) \div Half
      lo == IF n >= 16 THEN 0 ELSE (x * 2^n) % Half
  IN  <<IF hi >= Half \div 2 THEN hi - Half ELSE hi, lo>>

\* v >>> 0 of JavaScript: v taken modulo 2^32
toUint32(v) == <<v[1] % Half, v[2]>>

\* a + b of JavaScript numbers (no wrapping)
plus(a, b) == <<a[1] + b[1] + (a[2] + b[2]) \div Half, (a[2] + b[2]) % Half>>

\* bytes[k] ?? 0, k counted from 0 as in the source
byteAt(b, k) == IF k + 1 <= Len(b) THEN b[k + 1] ELSE 0

\* mutant: the two >>> 0 are missing, a first byte of 0x80 or more gives a
\* negative word
packWord_Signed(b, i) ==
  plus(plus(plus(shl(byteAt(b, i * 4), 24), shl(byteAt(b, i * 4 + 1), 16)),
            shl(byteAt(b, i * 4 + 2), 8)),
       <<0, byteAt(b, i * 4 + 3)>>)

\* the body of the packing loop for chunk i (from 0)
packWord(b, i) ==
  LET b0 == byteAt(b, i * 4)
      b1 == byteAt(b, i * 4 + 1)
      b2 == byteAt(b, i * 4 + 2)
      b3 == byteAt(b, i * 4 + 3)
      value == plus(plus(plus(toUint32(shl(b0, 24)), shl(b1, 16)),
                         shl(b2, 8)),
                    <<0, b3>>)
  IN  toUint32(value)

\* the packing of lines 263-273: chunkCount words
encode(b) == [i \in 1..chunkCount(Len(b)) |-> packWord(b, i - 1)]

\* the four bytes pushed for one revealed word: (v >>> 24) & 0xff,
\* (v >>> 16) & 0xff, (v >>> 8) & 0xff, v & 0xff
unpackWord(v) ==
  <<((v[1] % Half) \div 256) % 256, (v[1] % Half) % 256,
    (v[2] \div 256) % 256, v[2] % 256>>

\* byteArray after the loop over uint32Values
RECURSIVE unpack(_)
unpack(words) ==
  IF words = <<>> THEN <<>>
  ELSE unpackWord(Head(words)) \o unpack(Tail(words))

\* while (end > 0 && byteArray[end - 1] === 0) end--
RECURSIVE trimEnd(_, _)
trimEnd(byteArray, end) ==
  IF end > 0 /\ byteArray[end] = 0 THEN trimEnd(byteArray, end - 1) ELSE end

\* byteArray.slice(0, end) for the end found
trim(byteArray) == SubSeq(byteArray, 1, trimEnd(byteArray, Len(byteArray)))

\* mutant: zeros are trimmed word by word, as a per-word decoder would
RECURSIVE decode_PerWordTrim(_)
decode_PerWordTrim(words) ==
  IF words = <<>> THEN <<>>
  ELSE trim(unpackWord(Head(words))) \o decode_PerWordTrim(Tail(words))

\* mutant: at most the three bytes a short last word can be padded with are
\* trimmed
decode_PaddingOnly(words) ==
  LET byteArray == unpack(words)
      end == trimEnd(byteArray, Len(byteArray))
  IN  SubSeq(byteArray, 1,
             IF Len(byteArray) - end > 3 THEN Len(byteArray) - 3 ELSE end)

\* the unpacking of lines 477-491: the bytes given to the TextDecoder
decode(words) == trim(unpack(words))

\* the codec with a payload to pack
InitCodec ==
  /\ InitHook
  /\ bytes \in Payloads
  /\ uint32Chunks = <<>>
  /\ trimmed = <<>>
  /\ codecPc = "input"

\* lines 250-273: the two size checks, then the packing
Encode ==
  /\ codecPc = "input"
  /\ IF Len(bytes) = 0 \/ Len(bytes) > MAX_MESSAGE_BYTES
     THEN codecPc' = "rejected" /\ UNCHANGED uint32Chunks
     ELSE codecPc' = "encoded" /\ uint32Chunks' = encode(bytes)
  /\ UNCHANGED <<ledgerVars, hookVars, bytes, trimmed>>

\* lines 477-491 on the words revealed
Decode ==
  /\ codecPc = "encoded"
  /\ trimmed' = decode(uint32Chunks)
  /\ codecPc' = "decoded"
  /\ UNCHANGED <<ledgerVars, hookVars, bytes, uint32Chunks>>

NextCodec == Encode \/ Decode

SpecCodec == InitCodec /\ [][NextCodec]_vars

\* ===================================================================
\* Properties
\* ===================================================================
Heirs == {Zero} \cup Users
Parties(id) == {capsules[id].owner, capsules[id].heir}
LastEvent == events[Len(events)]
CreatedCount == Cardinality({i \in 1..Len(events) : events[i].name = "CapsuleCreated"})

\* C1 (as claimed): plaintext of a capsule is revealed only when the ledger
\* clock has reached the capsule's releaseTime; before it nobody, owner and
\* heir included, can read the record.
C1_NoPlaintextBeforeRelease ==
  (lastCall.op = "userDecrypt" /\ lastCall.result = Ok)
    => now >= capsules[lastCall.id].unlockTime

\* the CapsuleUnlocked notifications logged for capsule id
UnlockedEvents(id) ==
  {i \in 1..Len(events) :
     events[i].name = "CapsuleUnlocked" /\ events[i].capsuleId = id}

\* C2: unlocked goes from false to true only in a step with
\* now >= releaseTime made by the owner or the heir; before releaseTime an
\* unlock fails for every caller, and a caller that is neither owner nor heir
\* fails also after releaseTime.
C2_UnlockGating ==
  /\ \A id \in CapsuleIds, sender \in Users :
        /\ (capsules[id].exists /\ now < capsules[id].unlockTime)
              => unlockCapsule(sender, id).result # Ok
        /\ (capsules[id].exists /\ sender \notin Parties(id))
              => unlockCapsule(sender, id).result # Ok
        /\ unlockCapsule(sender, id).result # Ok
              => unlockCapsule(sender, id).st = Ledger
  /\ \A id \in CapsuleIds :
        capsules[id].unlocked =>
          /\ now >= capsules[id].unlockTime
          /\ UnlockedEvents(id) # {}
          /\ \A i \in UnlockedEvents(id) : events[i].who \in Parties(id)
  /\ (lastCall.op = "unlockCapsule" /\ lastCall.result = Ok) =>
        /\ capsules[lastCall.id].unlocked
        /\ LastEvent.name = "CapsuleUnlocked"
        /\ LastEvent.capsuleId = lastCall.id

C2_Witness ==
  /\ lastCall.op = "unlockCapsule" /\ lastCall.result = Ok
  /\ capsules[lastCall.id].unlocked
  /\ capsules[lastCall.id].heir # capsules[lastCall.id].owner
  /\ LastEvent.who = capsules[lastCall.id].heir

\* C3: unlocked is monotonic: once true for a capsule it is true in every
\* later state, whatever is called afterwards.
C3_UnlockedMonotonic ==
  [][\A id \in CapsuleIds : capsules[id].unlocked => capsules'[id].unlocked]_vars

\* a capsule is unlocked and a later create has succeeded
C3_Witness ==
  /\ capsules[0].unlocked
  /\ lastCall.op = "createCapsule"
  /\ lastCall.id = 1
  /\ lastCall.result = Ok

\* C4: after a successful unlock of a capsule every later unlock of it, by
\* any caller, fails with AlreadyUnlocked, changes nothing in the store and
\* emits no CapsuleUnlocked notification.
C4_SecondUnlockFails ==
  /\ \A id \in CapsuleIds, sender \in Users :
        capsules[id].unlocked =>
          unlockCapsule(sender, id) = [result |-> AlreadyUnlocked, st |-> Ledger]
  /\ \A id \in CapsuleIds :
        Cardinality(UnlockedEvents(id)) = IF capsules[id].unlocked THEN 1 ELSE 0
  /\ (lastCall.op = "unlockCapsule" /\ lastCall.result = AlreadyUnlocked) =>
        capsules[lastCall.id].unlocked

C4_Witness ==
  /\ lastCall.op = "unlockCapsule" /\ lastCall.result = AlreadyUnlocked
  /\ capsules[lastCall.id].unlocked

\* C5 (as claimed): the users allowed to read a handle of capsule c are
\* exactly owner(c) and heir(c), and a reveal of c's handles by any other
\* user fails.
C5_CapabilityScope ==
  \A id \in CapsuleIds : capsules[id].exists =>
    /\ \A h \in Range(capsules[id].encryptedContentChunks) :
          acl[h] \cap Users = Parties(id)
    /\ \A u \in Users \ Parties(id) : userDecrypt(u, id) # Ok

\* C6: create with releaseTime <= now fails with InvalidSchedule for every
\* caller, chunk list and heir, and so every capsule is created with
\* releaseTime > the ledger time of its creation.
C6_CreationSchedule ==
  /\ \A sender \in Users, chunks \in ChunkLists, t \in Times, heir \in Heirs :
        t <= now =>
          createCapsule(sender, chunks, t, heir) =
            [result |-> InvalidSchedule, ret |-> NoId, st |-> Ledger]
  /\ (lastCall.op = "createCapsule" /\ lastCall.result = Ok) =>
        capsules[lastCall.id].unlockTime > now
  /\ \A id \in CapsuleIds : capsules[id].exists => capsules[id].unlockTime > 0

C6_Witness ==
  /\ lastCall.op = "createCapsule" /\ lastCall.result = InvalidSchedule
  /\ capsuleCounter > 0
  /\ \A id \in CapsuleIds : capsules[id].exists => capsules[id].unlockTime > 0

\* C7 (as claimed): create with zero chunks fails with EmptyContent.
C7_ZeroChunksEmptyContent ==
  (lastCall.op = "createCapsule" /\ lastCall.numChunks = 0)
    => lastCall.result = EmptyContent

\* C7 (amended): create with zero chunks always fails and changes nothing,
\* with EmptyContent when releaseTime > now and with InvalidSchedule when
\* releaseTime <= now (the schedule is checked first); every capsule that
\* exists has at least one chunk.
C7_ZeroChunksRejected ==
  /\ \A sender \in Users, t \in Times, heir \in Heirs :
        createCapsule(sender, <<>>, t, heir) =
          [result |-> IF t > now THEN EmptyContent ELSE InvalidSchedule,
           ret |-> NoId, st |-> Ledger]
  /\ \A id \in CapsuleIds :
        capsules[id].exists => Len(capsules[id].encryptedContentChunks) >= 1

C7_Witness ==
  /\ lastCall.op = "createCapsule" /\ lastCall.result = EmptyContent
  /\ lastCall.numChunks = 0
  /\ capsuleCounter > 0

\* C8: create is atomic: a create that fails (InvalidSchedule, EmptyContent,
\* InvalidProof) leaves the counter, every record, every index and every
\* grant unchanged and emits nothing; a create that succeeds performs the
\* record write, all grants and all index insertions together.
C8_CreateAtomic ==
  /\ \A sender \in Users, chunks \in ChunkLists, t \in Times, heir \in Heirs :
        LET r == createCapsule(sender, chunks, t, heir)
            h == IF heir # Zero THEN heir ELSE sender
        IN  IF r.result # Ok
            THEN r.result \in {InvalidSchedule, EmptyContent, InvalidProof}
                   /\ r.ret = NoId /\ r.st = Ledger
            ELSE /\ r.st.capsuleCounter = capsuleCounter + 1
                 /\ r.st.capsules[r.ret].exists
                 /\ r.st.capsules[r.ret].encryptedContentChunks = chunks
                 /\ \A c \in Range(chunks) : {This, sender, h} \subseteq r.st.acl[c]
                 /\ \A u \in {sender, h} :
                      r.st.userCapsules[u] = Append(userCapsules[u], r.ret)
                 /\ Len(r.st.events) = Len(events) + 1
  /\ (lastCall.op = "createCapsule" /\ lastCall.result # Ok) => lastCall.id = NoId
  /\ (lastCall.op = "createCapsule" /\ lastCall.result = Ok) =>
        LET id == lastCall.id
            c  == capsules[id]
        IN  /\ capsuleCounter = id + 1
            /\ c.exists
            /\ Len(c.encryptedContentChunks) = lastCall.numChunks
            /\ \A h \in Range(c.encryptedContentChunks) :
                 {This, c.owner, c.heir} \subseteq acl[h]
            /\ \A u \in {c.owner, c.heir} :
                 /\ Len(userCapsules[u]) > 0
                 /\ userCapsules[u][Len(userCapsules[u])] = id
            /\ LastEvent.name = "CapsuleCreated"
            /\ LastEvent.capsuleId = id

\* a create failed on its proof after an earlier create had succeeded
C8_Witness ==
  /\ lastCall.op = "createCapsule" /\ lastCall.result = InvalidProof
  /\ capsuleCounter = 1 /\ Len(events) = 1

\* C9: ids are unique, increase in creation order and are never reused: the
\* k-th successful create returns id k-1, totalCapsules() is the number of
\* successful creates and never decreases, and a capsule exists exactly when
\* its id < totalCapsules().
C9_IdsSequential ==
  /\ [](/\ getTotalCapsules = CreatedCount
        /\ \A i \in 1..Len(events) :
             events[i].name = "CapsuleCreated" =>
               events[i].capsuleId =
                 Cardinality({j \in 1..i : events[j].name = "CapsuleCreated"}) - 1
        /\ \A id \in CapsuleIds : capsules[id].exists <=> id < getTotalCapsules)
  /\ [][/\ capsuleCounter' >= capsuleCounter
        /\ (lastCall'.op = "createCapsule" /\ lastCall'.result = Ok) =>
              (lastCall'.id = capsuleCounter /\ capsuleCounter' = capsuleCounter + 1)]_vars

C9_Witness ==
  /\ getTotalCapsules = 2
  /\ lastCall.op = "createCapsule" /\ lastCall.result = Ok /\ lastCall.id = 1
  /\ Len(events) = 3

\* C10: a capsule only moves absent -> created(unlocked=false) ->
\* created(unlocked=true): only a successful create makes exists true, exists
\* never returns to false, a new capsule is locked, and no operation deletes
\* or re-creates a capsule.
C10_Lifecycle ==
  /\ [](\A id \in CapsuleIds : ~capsules[id].exists => capsules[id] = NoCapsule)
  /\ [][\A id \in CapsuleIds :
          /\ capsules[id].exists =>
               /\ capsules'[id].exists
               /\ capsules'[id] \in {capsules[id], [capsules[id] EXCEPT !.unlocked = TRUE]}
          /\ (~capsules[id].exists /\ capsules'[id].exists) =>
               /\ lastCall'.op = "createCapsule"
               /\ lastCall'.result = Ok
               /\ lastCall'.id = id
               /\ ~capsules'[id].unlocked]_vars

C10_Witness ==
  /\ capsules[0].exists /\ capsules[0].unlocked
  /\ capsules[1].exists /\ ~capsules[1].unlocked
  /\ ~capsules[2].exists
  /\ lastCall.op = "unlockCapsule"

\* C11: once a capsule exists, its chunk sequence (count and order), its
\* releaseTime, its owner and its heir are the same in every later state,
\* whatever creates and unlocks follow, and getEncryptedContents(id) returns
\* the same sequence before and after the unlock.
C11_CapsuleImmutable ==
  [][\A id \in CapsuleIds :
       capsules[id].exists =>
         /\ capsules'[id].exists
         /\ capsules'[id].encryptedContentChunks
              = capsules[id].encryptedContentChunks
         /\ capsules'[id].unlockTime = capsules[id].unlockTime
         /\ capsules'[id].owner = capsules[id].owner
         /\ capsules'[id].heir = capsules[id].heir
         /\ getEncryptedContents(id)' = getEncryptedContents(id)]_vars

\* capsule 0 has been unlocked and another capsule was created after it
C11_Witness ==
  /\ capsuleCounter = 2
  /\ capsules[0].unlocked
  /\ getEncryptedContents(0).result = Ok
  /\ Len(getEncryptedContents(0).ret) > 0
  /\ capsules[1].encryptedContentChunks # capsules[0].encryptedContentChunks
  /\ capsules[1].owner # capsules[0].owner

\* C12: a create with the heir omitted (address zero) and a create with the
\* heir equal to the caller both store heir = owner = caller, and in both
\* cases the new id is appended exactly once to the caller's index and to
\* no other identity's index.
C12_SelfHeir ==
  \A sender \in Users, chunks \in ChunkLists, unlockTime \in Times :
    \A heir \in {Zero, sender} :
      LET r == createCapsule(sender, chunks, unlockTime, heir)
      IN  r.result = Ok =>
            /\ r.st.capsules[r.ret].owner = sender
            /\ r.st.capsules[r.ret].heir = sender
            /\ r.st.userCapsules[sender] = Append(userCapsules[sender], r.ret)
            /\ r.ret \notin Range(userCapsules[sender])
            /\ \A u \in Users \ {sender} :
                 r.st.userCapsules[u] = userCapsules[u]

\* the first capsule was created with the heir omitted, the second with the
\* caller named as heir
C12_Witness ==
  /\ lastCall.op = "createCapsule" /\ lastCall.result = Ok
  /\ Len(events) = 2
  /\ events[1].name = "CapsuleCreated" /\ events[1].heir = Zero
  /\ events[2].name = "CapsuleCreated" /\ events[2].heir = events[2].who
  /\ \A id \in 0..1 : capsules[id].heir = capsules[id].owner
  /\ \A u \in Users :
       Len(userCapsules[u])
         = Cardinality({id \in 0..1 : capsules[id].owner = u})

\* the ids created so far that name u as owner or heir
IdsOf(u) == {id \in CapsuleIds : capsules[id].exists /\ u \in Parties(id)}

\* C13: in every reachable state and for every identity u, getUserCapsules(u)
\* lists exactly the ids of the capsules whose owner or heir is u, each id
\* once and in creation order (ids are handed out in increasing order), and
\* every listed id is an existing capsule.
C13_IndexExact ==
  \A u \in Users :
    LET ids == getUserCapsules(u)
    IN  /\ Range(ids) = IdsOf(u)
        /\ \A i, j \in 1..Len(ids) : i < j => ids[i] < ids[j]
        /\ \A i \in 1..Len(ids) : capsules[ids[i]].exists

\* user 1 owns capsule 0 and is the heir of somebody else's capsule 1
C13_Witness ==
  /\ getUserCapsules(1) = <<0, 1>>
  /\ capsules[0].owner = 1
  /\ capsules[1].owner = 2 /\ capsules[1].heir = 1
  /\ getUserCapsules(2) = <<1>>
  /\ getUserCapsules(3) = <<>>

\* the record getCapsuleInfo returns for a capsule as it is stored
StoredInfo(id) ==
  [unlockTime |-> capsules[id].unlockTime, owner |-> capsules[id].owner,
   heir |-> capsules[id].heir, exists |-> capsules[id].exists,
   unlocked |-> capsules[id].unlocked]

\* C14 (as claimed): getCapsuleInfo(id) fails with NotFound for every id whose
\* capsule does not exist, and returns the stored releaseTime, owner, heir,
\* exists = true and unlocked for every id that exists.
C14_MetadataNotFound ==
  lastCall.op = "getCapsuleInfo" =>
    IF capsules[lastCall.id].exists
    THEN /\ lastCall.result = Ok
         /\ getCapsuleInfo(lastCall.id).ret = StoredInfo(lastCall.id)
    ELSE lastCall.result = NotFound

\* C14 (amended): getCapsuleInfo(id) never fails; for an id whose capsule
\* does not exist it returns exists = false with releaseTime 0, owner and
\* heir the zero address and unlocked = false, and for every id that exists
\* it returns the stored releaseTime, owner, heir, exists = true and unlocked.
C14_MetadataTotal ==
  lastCall.op = "getCapsuleInfo" =>
    /\ lastCall.result = Ok
    /\ LET info == getCapsuleInfo(lastCall.id).ret
       IN  IF capsules[lastCall.id].exists
           THEN info = StoredInfo(lastCall.id) /\ info.exists
           ELSE info = [unlockTime |-> 0, owner |-> Zero, heir |-> Zero,
                        exists |-> FALSE, unlocked |-> FALSE]

\* the view was called for an id that has not been created yet, while an
\* earlier capsule exists
C14_Witness ==
  /\ lastCall.op = "getCapsuleInfo"
  /\ lastCall.result = Ok
  /\ ~capsules[lastCall.id].exists
  /\ capsules[0].exists /\ capsules[0].unlocked

\* C15: canUnlock(id) fails with NotFound when the capsule is absent, fails
\* with AlreadyUnlocked when unlocked is true, and otherwise returns exactly
\* (now >= releaseTime); a call never modifies the store or the clock.
C15_CanUnlockView ==
  /\ [](lastCall.op = "canUnlock" =>
          LET capsule == capsules[lastCall.id]
          IN  IF ~capsule.exists THEN lastCall.result = NotFound
              ELSE IF capsule.unlocked THEN lastCall.result = AlreadyUnlocked
              ELSE /\ lastCall.result = Ok
                   /\ canUnlock(lastCall.id).ret = (now >= capsule.unlockTime))
  /\ [][lastCall'.op = "canUnlock" => UNCHANGED <<now, store>>]_vars

\* canUnlock answered true for a capsule whose release time has come, while
\* another capsule is already unlocked
C15_Witness ==
  /\ lastCall.op = "canUnlock"
  /\ lastCall.result = Ok
  /\ canUnlock(lastCall.id).ret
  /\ \E id \in CapsuleIds : canUnlock(id).result = AlreadyUnlocked

Releasable(id) ==
  /\ capsules[id].exists
  /\ ~capsules[id].unlocked
  /\ now >= capsules[id].unlockTime

\* C17: for a capsule created with a future releaseTime, once the clock has
\* reached releaseTime canUnlock returns true, and keeps returning true in
\* every later state in which the capsule is still locked; in every such
\* state an unlock by the owner and an unlock by the heir succeed and mark
\* the capsule unlocked.  The clock never goes back, so a capsule whose
\* release time has come stays unlockable until somebody unlocks it.
C17_EventuallyUnlockable ==
  /\ [](\A id \in CapsuleIds :
          Releasable(id) =>
            /\ canUnlock(id) = [result |-> Ok, ret |-> TRUE]
            /\ \A sender \in Parties(id) :
                 LET r == unlockCapsule(sender, id)
                 IN  r.result = Ok /\ r.st.capsules[id].unlocked)
  /\ [][/\ now' >= now
        /\ \A id \in CapsuleIds :
             Releasable(id) /\ ~capsules'[id].unlocked => Releasable(id)']_vars

\* the heir, who is not the owner, unlocked the capsule at the very instant
\* of its release time
C17_Witness ==
  /\ lastCall.op = "unlockCapsule" /\ lastCall.result = Ok
  /\ capsules[lastCall.id].unlocked
  /\ now = capsules[lastCall.id].unlockTime
  /\ LastEvent.name = "CapsuleUnlocked"
  /\ LastEvent.who = capsules[lastCall.id].heir
  /\ capsules[lastCall.id].heir # capsules[lastCall.id].owner

\* C18 (as claimed): every successful create emits exactly one CapsuleCreated
\* notification, and its id, owner, heir and releaseTime equal the fields of
\* the stored capsule record; in particular the notified heir is the stored
\* heir, also when the heir was not supplied.
C18_CreatedEventMatchesRecord ==
  /\ \A id \in CapsuleIds :
       capsules[id].exists <=>
         Cardinality({i \in 1..Len(events) :
                        /\ events[i].name = "CapsuleCreated"
                        /\ events[i].capsuleId = id}) = 1
  /\ \A i \in 1..Len(events) :
       events[i].name = "CapsuleCreated" =>
         LET capsule == capsules[events[i].capsuleId]
         IN  /\ capsule.exists
             /\ events[i].who = capsule.owner
             /\ events[i].heir = capsule.heir
             /\ events[i].unlockTime = capsule.unlockTime

\* no workflow is between two awaits
Quiescent ==
  /\ createRun.pc = "idle"
  /\ unlockRun.pc = "idle"
  /\ decryptRun.pc = "idle"

\* C20: when every awaited engine, ledger and signature call eventually
\* resolves or rejects, a create, unlock or decrypt workflow that set its
\* busy flag eventually clears it, whichever way it ends; a busy flag is set
\* only while its workflow is in flight, so no quiescent state has a busy
\* flag set.
C20_BusyFlagReleased ==
  /\ [](/\ isCreatingRef <=> createRun.pc # "idle"
        /\ isUnlockingRef <=> unlockRun.pc # "idle"
        /\ isDecryptingRef <=> decryptRun.pc # "idle"
        /\ Quiescent => ~(isCreatingRef \/ isUnlockingRef \/ isDecryptingRef))
  /\ isCreatingRef ~> ~isCreatingRef
  /\ isUnlockingRef ~> ~isUnlockingRef
  /\ isDecryptingRef ~> ~isDecryptingRef

\* a create workflow whose transaction was mined ended as stale, and the
\* client is quiescent with no busy flag set
C20_Witness ==
  /\ Quiescent
  /\ message = "Operation cancelled"
  /\ capsuleCounter = 1
  /\ userCapsuleIds = <<>>
  /\ ~isCreatingRef /\ ~isUnlockingRef /\ ~isDecryptingRef

\* C19 (as claimed): a create, unlock or decrypt workflow whose captured
\* identity or network is no longer the active one when one of its awaited
\* steps resolves applies nothing to the client's capsule collection
\* (records and their decrypted content) or capsule index.
C19_StalenessDiscard ==
  [][/\ (/\ createRun.pc # "idle"
         /\ createRun' # createRun
         /\ isStale(createRun.thisEthersSigner))
          => UNCHANGED <<uiCapsules, userCapsuleIds>>
     /\ (/\ unlockRun.pc # "idle"
         /\ unlockRun' # unlockRun
         /\ isStale(unlockRun.thisEthersSigner))
          => UNCHANGED <<uiCapsules, userCapsuleIds>>
     /\ (/\ decryptRun.pc # "idle"
         /\ decryptRun' # decryptRun
         /\ isStale(decryptRun.thisEthersSigner))
          => UNCHANGED <<uiCapsules, userCapsuleIds>>]_vars

\* C21: for each workflow kind at most one invocation is in flight: a new
\* run starts only from a state in which no run of its kind is in flight
\* and its busy flag is clear; while the flag is set an invocation is
\* refused at the guard, so it makes no call and changes nothing, and
\* nothing is kept for later.
C21_MutualExclusion ==
  /\ [](/\ isCreatingRef => ~ENABLED CreateStart
        /\ isUnlockingRef => ~ENABLED UnlockStart
        /\ isDecryptingRef => ~ENABLED DecryptStart)
  /\ [][/\ (createRun' # createRun /\ createRun'.pc = "encrypt")
             => (createRun.pc = "idle" /\ ~isCreatingRef)
        /\ (unlockRun' # unlockRun /\ unlockRun'.pc = "send")
             => (unlockRun.pc = "idle" /\ ~isUnlockingRef)
        /\ (decryptRun' # decryptRun /\ decryptRun'.pc = "sign")
             => (decryptRun.pc = "idle" /\ ~isDecryptingRef)]_vars

\* an unlock is waiting for its transaction while the wallet still shows
\* the account and network it started under: only the busy flag stands
\* between a second unlockCapsule call and a second run
C21_Witness ==
  /\ isUnlockingRef
  /\ unlockRun.pc = "wait"
  /\ Deployed(chainId)
  /\ ethersSigner = unlockRun.thisEthersSigner
  /\ capsules[unlockRun.capsuleId].exists

\* C22 (as claimed): operations on the same capsule id are serialized: in no
\* reachable state are an unlock and a decrypt of the same capsule id in
\* flight at the same time.
C22_SameIdSerialized ==
  ~(/\ unlockRun.pc # "idle"
    /\ decryptRun.pc # "idle"
    /\ unlockRun.capsuleId = decryptRun.thisCapsuleId)

\* the decrypted content attached to the cached record of a capsule id, or
\* NoContent when no record of that id is cached or none is attached
DecryptedOf(cached, capsuleId) ==
  IF \E i \in 1..Len(cached) : cached[i].id = capsuleId
  THEN LET i == CHOOSE k \in 1..Len(cached) : cached[k].id = capsuleId
       IN  cached[i].decryptedContent
  ELSE NoContent

\* C23 (as claimed): a decrypt request for a capsule whose cached record
\* already carries decrypted content is a no-op: no decrypt run starts for
\* it (so no session is acquired and no reveal is requested).
C23_DecryptIdempotent ==
  [][(decryptRun.pc = "idle" /\ decryptRun'.pc = "sign")
       => DecryptedOf(uiCapsules, decryptRun'.thisCapsuleId) = NoContent]_vars

\* C24 (as claimed): once decrypted content is attached to a capsule's
\* record, the record of that id carries the same content in every later
\* state.
C24_DecryptedContentKept ==
  [][\A id \in ClientIds :
       DecryptedOf(uiCapsules, id) # NoContent
         => DecryptedOf(uiCapsules', id) = DecryptedOf(uiCapsules, id)]_vars

\* the byte sequence b without its trailing 0x00 bytes
StripTrailingZeros(b) ==
  LET n == CHOOSE k \in 0..Len(b) :
             /\ k = 0 \/ b[k] # 0
             /\ \A j \in (k + 1)..Len(b) : b[j] = 0
  IN  [j \in 1..n |-> b[j]]

\* C25: codec round trip: for a non-empty payload whose last byte is not
\* zero, decoding the words its encoding produced gives the payload back.
C25_RoundTrip ==
  (codecPc = "decoded" /\ bytes[Len(bytes)] # 0) => trimmed = bytes

\* a five-byte payload (one full word and a padded one) with a zero inside,
\* a byte of 0x80 or more in front and a non-zero last byte, decoded
C25_Witness ==
  /\ codecPc = "decoded"
  /\ Len(bytes) = 5
  /\ bytes[1] >= 128
  /\ bytes[3] = 0 /\ bytes[4] = 0
  /\ bytes[5] # 0
  /\ trimmed = bytes

\* C26: lossy boundary: decoding the encoding of a non-empty payload gives
\* the payload without all of its trailing 0x00 bytes, padding and genuine
\* zeros alike, and words that are all zero decode to the empty sequence.
C26_TrailingZerosStripped ==
  codecPc = "decoded"
    => /\ trimmed = StripTrailingZeros(bytes)
       /\ (\A i \in 1..Len(uint32Chunks) : uint32Chunks[i] = <<0, 0>>)
            => trimmed = <<>>

\* a payload ending in two genuine zero bytes and needing padding too
C26_Witness ==
  /\ codecPc = "decoded"
  /\ Len(bytes) = 5
  /\ bytes[3] # 0 /\ bytes[4] = 0 /\ bytes[5] = 0
  /\ Len(trimmed) = 3

\* 0x68690000 as <<0x6869, 0x0000>>
Word68690000 == <<26729, 0>>

\* C27: an N-byte payload, 1 <= N <= 1024, is packed into ceil(N/4) words,
\* word i being the big-endian value of bytes 4i..4i+3 with the missing
\* ones taken as zero, every word in [0, 2^32); 0x68 0x69 gives 0x68690000.
C27_EncodeShape ==
  codecPc \in {"encoded", "decoded"}
    => /\ Len(bytes) \in 1..MAX_MESSAGE_BYTES
       /\ 4 * Len(uint32Chunks) >= Len(bytes)
       /\ 4 * (Len(uint32Chunks) - 1) < Len(bytes)
       /\ \A i \in 1..Len(uint32Chunks) :
            /\ uint32Chunks[i] \in (0..(Half - 1)) \X (0..(Half - 1))
            /\ uint32Chunks[i][1] =
                 256 * byteAt(bytes, 4 * (i - 1))
                   + byteAt(bytes, 4 * (i - 1) + 1)
            /\ uint32Chunks[i][2] =
                 256 * byteAt(bytes, 4 * (i - 1) + 2)
                   + byteAt(bytes, 4 * (i - 1) + 3)
       /\ bytes = <<104, 105>> => uint32Chunks = <<Word68690000>>

\* the payload "hi" packed
C27_Witness ==
  codecPc = "encoded" /\ bytes = <<104, 105>> /\ uint32Chunks = <<Word68690000>>

PayloadRejections == {"Message is empty", "Message is too long"}

\* C28: createCapsule rejects an empty payload and one of more than 1024
\* bytes before its first await: the step that reports the rejection leaves
\* no create run behind (no encryption requested), the busy flag clear and
\* the ledger as it was, and a run in flight always carries a payload of
\* 1..1024 bytes, that is 1..256 chunks.
C28_PayloadRejected ==
  /\ [](createRun.pc # "idle"
          => createRun.numChunks \in 1..chunkCount(MAX_MESSAGE_BYTES))
  /\ [][(message' \in PayloadRejections /\ message' # message)
          => /\ createRun.pc = "idle" /\ createRun' = NoCreate
             /\ ~isCreatingRef'
             /\ ledgerVars' = ledgerVars]_vars

\* a rejection reported: no run, the flag clear, nothing sent to the ledger
C28_Witness ==
  /\ message \in PayloadRejections
  /\ createRun = NoCreate /\ ~isCreatingRef
  /\ capsuleCounter = 0
  /\ lastCall = NoCall

\* C29: unlockCapsule validates in the order existence, not already
\* unlocked, release time reached, caller is owner or heir, and reports the
\* first check that fails.
C29_UnlockCheckOrder ==
  \A sender \in Users, id \in CapsuleIds :
    unlockCapsule(sender, id).result =
      IF ~capsules[id].exists THEN NotFound
      ELSE IF capsules[id].unlocked THEN AlreadyUnlocked
      ELSE IF now < capsules[id].unlockTime THEN NotYet
      ELSE IF sender \notin Parties(id) THEN Unauthorized
      ELSE Ok

\* an unlock was refused as too early on a capsule for which a caller who is
\* neither owner nor heir fails two checks and is told of the first
C29_Witness ==
  /\ lastCall.op = "unlockCapsule"
  /\ lastCall.result = NotYet
  /\ \E sender \in Users \ Parties(lastCall.id) :
       unlockCapsule(sender, lastCall.id).result = NotYet

\* C30: a successful unlock changes only the unlocked flag of that capsule
\* (and logs its notification): counter, indexes, grants, the capsule's other
\* fields and all other records stay; a failed unlock changes nothing.
C30_UnlockWritesOnlyFlag ==
  \A sender \in Users, id \in CapsuleIds :
    LET r == unlockCapsule(sender, id)
    IN  IF r.result = Ok
        THEN /\ r.st.capsuleCounter = capsuleCounter
             /\ r.st.userCapsules = userCapsules
             /\ r.st.acl = acl
             /\ \A other \in CapsuleIds \ {id} :
                  r.st.capsules[other] = capsules[other]
             /\ ~capsules[id].unlocked
             /\ r.st.capsules[id] = [capsules[id] EXCEPT !.unlocked = TRUE]
             /\ r.st.events = Append(events, CapsuleUnlocked(id, sender))
        ELSE r.st = Ledger

\* an unlock has succeeded while another capsule is stored and still locked
C30_Witness ==
  /\ lastCall.op = "unlockCapsule"
  /\ lastCall.result = Ok
  /\ capsules[lastCall.id].unlocked
  /\ LastEvent = CapsuleUnlocked(lastCall.id, LastEvent.who)
  /\ \E other \in CapsuleIds \ {lastCall.id} :
       capsules[other].exists /\ ~capsules[other].unlocked

\* C31: when the context is stale as input.encrypt() resolves, the create
\* workflow ends there: it does not go on to submit createCapsule and the
\* store is left as it was.
C31_StaleAfterEncryptNoSubmit ==
  [][(createRun.pc = "encrypt" /\ createRun' # createRun
        /\ isStale(createRun.thisEthersSigner))
       => createRun' = NoCreate /\ ~isCreatingRef' /\ store' = store]_vars

\* a create was cancelled before anything was sent: nothing is stored
C31_Witness ==
  /\ message = "Operation cancelled"
  /\ createRun = NoCreate /\ ~isCreatingRef
  /\ capsuleCounter = 0
  /\ ethersSigner # 1

\* C32: staleness never rolls the ledger back: a create or unlock that ends
\* as stale after its transaction was mined leaves the capsule stored /
\* unlocked and makes no further ledger call, and no later step removes a
\* stored capsule or clears an unlocked flag.
C32_StaleKeepsLedgerEffect ==
  /\ [][(createRun.pc = "wait" /\ createRun' = NoCreate
           /\ message' = "Operation cancelled")
          => /\ capsuleCounter' = capsuleCounter + 1
             /\ capsules'[capsuleCounter].exists
             /\ capsules'[capsuleCounter].owner = createRun.thisEthersSigner]_vars
  /\ [][(unlockRun.pc = "wait" /\ unlockRun' = NoUnlock
           /\ message' = "Operation cancelled")
          => capsules'[unlockRun.capsuleId].unlocked]_vars
  /\ [][\A id \in CapsuleIds :
          /\ capsules[id].exists => capsules'[id] = [capsules[id] EXCEPT
                                       !.unlocked = capsules'[id].unlocked]
          /\ capsules[id].unlocked => capsules'[id].unlocked]_vars

\* a create ended as stale after its transaction was mined: the capsule is
\* stored though nothing of it is cached or indexed locally
C32_Witness ==
  /\ message = "Operation cancelled"
  /\ createRun = NoCreate /\ unlockRun = NoUnlock
  /\ capsuleCounter = 1
  /\ capsules[0].exists /\ ~capsules[0].unlocked
  /\ capsules[0].owner # ethersSigner
  /\ uiCapsules = <<>>

\* C33: a decrypt request for a capsule with no cached record or no cached
\* handles reports "Capsule content not found" and starts nothing: the busy
\* flag stays clear, no signature is asked for and the engine is not called;
\* a decrypt run only ever starts with the handles cached for its capsule.
C33_ContentUnavailable ==
  /\ [][(message' = "Capsule content not found" /\ message' # message)
          => /\ decryptRun = NoDecrypt /\ decryptRun' = NoDecrypt
             /\ ~isDecryptingRef'
             /\ loadOrSignCalls' = loadOrSignCalls
             /\ uiCapsules' = uiCapsules
             /\ \E capsuleId \in ClientIds :
                  CachedHandles(capsuleId) = NoContent]_vars
  /\ [][(decryptRun.pc = "idle" /\ decryptRun'.pc = "sign")
          => /\ CachedHandles(decryptRun'.thisCapsuleId) # NoContent
             /\ decryptRun'.handles = CachedHandles(decryptRun'.thisCapsuleId)]_vars

\* the request was refused for a capsule that is stored but whose record
\* has not been loaded yet
C33_Witness ==
  /\ message = "Capsule content not found"
  /\ decryptRun = NoDecrypt /\ ~isDecryptingRef /\ loadOrSignCalls = 0
  /\ capsules[0].exists
  /\ CachedHandles(0) = NoContent

\* C34: when loadOrSign returns no signature or rejects, the decrypt
\* workflow ends: no userDecrypt call is made, no decrypted content is
\* attached to any record and the busy flag is released.
C34_SessionFailure ==
  [][(decryptRun.pc = "sign"
        /\ message' \in {"Unable to build decryption signature",
                         "Decryption failed"}
        /\ decryptRun' # decryptRun)
       => /\ decryptRun' = NoDecrypt
          /\ ~isDecryptingRef'
          /\ uiCapsules' = uiCapsules
          /\ acl' = acl]_vars

\* loadOrSign gave no signature: the run is over, the flag clear and the
\* cached record it was about has no decrypted content
C34_Witness ==
  /\ message = "Unable to build decryption signature"
  /\ decryptRun = NoDecrypt /\ ~isDecryptingRef
  /\ uiCapsules # <<>>
  /\ \A i \in 1..Len(uiCapsules) : uiCapsules[i].decryptedContent = NoContent

\* C35: at most one FhevmDecryptionSignature.loadOrSign call is in flight at
\* any time, and while it is the decrypt busy flag is held, so no second
\* caller reaches the signature cache before the first has finished with it.
C35_OneSessionAcquisition ==
  /\ loadOrSignCalls \in {0, 1}
  /\ loadOrSignCalls = 1 => (isDecryptingRef /\ decryptRun.pc = "sign")
  /\ decryptRun.pc = "sign" => loadOrSignCalls = 1

\* a loadOrSign call is pending for the account the run captured while the
\* wallet has moved on to another account, for which a signature would be a
\* new one
C35_Witness ==
  /\ loadOrSignCalls = 1
  /\ isDecryptingRef
  /\ decryptRun.pc = "sign"
  /\ ethersSigner # decryptRun.thisEthersSigner
  /\ CachedHandles(0) # NoContent

\* the awaits of each workflow in the order the code reaches them
CreateOrder == <<"idle", "encrypt", "send", "wait", "load">>
UnlockOrder == <<"idle", "send", "wait", "load">>
DecryptOrder == <<"idle", "sign", "decrypt">>
Rank(order, pc) == CHOOSE i \in 1..Len(order) : order[i] = pc

\* a run moves to its next await or ends, and never goes back
Forward(order, pc, pcNext) ==
  pcNext # pc => (pcNext = "idle" \/ Rank(order, pcNext) = Rank(order, pc) + 1)

\* C36: a failure of the engine or the ledger inside a workflow is caught by
\* it and becomes a status message, the run ending with its flag released;
\* nothing is retried: a run only moves forward through its awaits, so one
\* invocation makes at most one encryption request, one ledger submission
\* and one reveal request.
C36_FailuresReportedNoRetry ==
  /\ [][/\ Forward(CreateOrder, createRun.pc, createRun'.pc)
        /\ Forward(UnlockOrder, unlockRun.pc, unlockRun'.pc)
        /\ Forward(DecryptOrder, decryptRun.pc, decryptRun'.pc)]_vars
  /\ [][/\ (message' = "Failed to create capsule" /\ message' # message)
             => (createRun.pc \in {"encrypt", "send", "wait"}
                   /\ createRun' = NoCreate /\ ~isCreatingRef')
        /\ (message' = "Failed to unlock capsule" /\ message' # message)
             => (unlockRun.pc \in {"send", "wait"}
                   /\ unlockRun' = NoUnlock /\ ~isUnlockingRef')
        /\ (message' = "Decryption failed" /\ message' # message)
             => (decryptRun.pc \in {"sign", "decrypt"}
                   /\ decryptRun' = NoDecrypt /\ ~isDecryptingRef')]_vars

\* an unlock failed (refused by the wallet or reverted by the store): the
\* failure is on display, the run is over and the capsule is still locked
C36_Witness ==
  /\ message = "Failed to unlock capsule"
  /\ unlockRun = NoUnlock /\ ~isUnlockingRef
  /\ capsules[0].exists /\ ~capsules[0].unlocked

\* a create and an unlock workflow are in flight together
CreateAndUnlockInFlight == createRun.pc # "idle" /\ unlockRun.pc # "idle"

\* C37: workflows of different kinds do not block each other: while a create
\* and an unlock are both in flight each of them has a step it can take,
\* and whatever the order of their steps both end with their flags released.
C37_NoBlocking ==
  /\ [](CreateAndUnlockInFlight => (ENABLED CreateStep /\ ENABLED UnlockStep))
  /\ CreateAndUnlockInFlight ~> ~isCreatingRef
  /\ CreateAndUnlockInFlight ~> ~isUnlockingRef

\* both transactions are waited for at the same time
C37_Witness ==
  /\ createRun.pc = "wait" /\ isCreatingRef
  /\ unlockRun.pc = "wait" /\ isUnlockingRef

\* C38 (as claimed): once every capsule-index load in flight has resolved,
\* the ids held locally are the store's list for the active account,
\* whatever the order in which loads started under the previous and under
\* the active account resolve.  Stated for an active account that no
\* capsule names, whose list in the store is and always was empty.
C38_IndexMatchesActiveSigner ==
  (/\ Deployed(chainId)
   /\ indexLoads = {}
   /\ createRun.pc # "load"
   /\ getUserCapsules(ethersSigner) = <<>>)
    => userCapsuleIds = <<>>

\* C39: the cached collection holds at most one record per capsule id, under
\* any interleaving of loadCapsuleDetails calls, refreshes and decrypt
\* results.
C39_OneRecordPerId ==
  \A i, j \in 1..Len(uiCapsules) :
    uiCapsules[i].id = uiCapsules[j].id => i = j

\* two capsules are cached, one of them decrypted, while a refresh is
\* reloading records and an effect-started load of a cached id is pending
C39_Witness ==
  /\ Len(uiCapsules) = 2
  /\ \E i \in 1..2 : uiCapsules[i].decryptedContent # NoContent
  /\ refreshRun.pc = "details"
  /\ \E id \in detailLoads : CachedHandles(id) # NoContent

\* C40: for every capsule id at most one CapsuleUnlocked notification is
\* ever logged, it comes after that id's CapsuleCreated notification, and
\* its unlocker is the capsule's owner or heir.
C40_UnlockedNotifiedOnce ==
  \A i \in 1..Len(events) :
    events[i].name = "CapsuleUnlocked"
      => /\ \A j \in 1..Len(events) :
              (events[j].name = "CapsuleUnlocked"
                 /\ events[j].capsuleId = events[i].capsuleId) => j = i
         /\ \E j \in 1..(i - 1) :
              /\ events[j].name = "CapsuleCreated"
              /\ events[j].capsuleId = events[i].capsuleId
         /\ events[i].who \in Parties(events[i].capsuleId)
         /\ events[i].who # Zero

\* both capsules have been unlocked, one of them by an heir who is not its
\* owner
C40_Witness ==
  /\ Cardinality({i \in 1..Len(events) : events[i].name = "CapsuleUnlocked"}) = 2
  /\ \E i \in 1..Len(events) :
       /\ events[i].name = "CapsuleUnlocked"
       /\ events[i].who = capsules[events[i].capsuleId].heir
       /\ events[i].who # capsules[events[i].capsuleId].owner

====
